---- MODULE Spec2Model ----
(***************************************************************************)
(* Device-model resolution engine of the GenieACS proxy                    *)
(* (src/ATUAIS/tasksback.py, v0.8.0, and src/backend/genieacs_backend_mvp  *)
(* .py, v0.5.2).                                                            *)
(*                                                                         *)
(* A device document is the JSON tree the controller returns.  JSON values *)
(* are tagged records [t, v]:                                              *)
(*   "null", "bool", "int", "str", "list" and "dict".                      *)
(* A dict keeps its keys in document order (Python dicts and the JSON      *)
(* parser preserve insertion order), so its v is a sequence of             *)
(* <<key, node>> pairs with distinct keys.  Strings are TLA+ strings; the  *)
(* code's character-level operations (split, lower, strip, substring and   *)
(* regular-expression search) are computed character by character.         *)
(***************************************************************************)
EXTENDS Integers, Sequences, FiniteSets, TLC

VARIABLES doc, op, arg, ret

\* The controller's fleet and clock, the subscriber's connection, and the
\* position, locals, requests and last emission of the running coroutine.
VARIABLES fleet, clock, churn, connected, pc, frame, sent, snapshot, history

vars == <<doc, op, arg, ret, fleet, clock, churn, connected, pc, frame, sent, snapshot, history>>

-----------------------------------------------------------------------------
(* Bounds of the model                                                     *)

\* WLAN-configuration instances "1".."MaxInst" may be present in a legacy
\* document.
MaxInst == 3

\* Access-point instances "1".."MaxAp" may be present in a hierarchical
\* document.
MaxAp == 4

\* IP interfaces of a hierarchical document.
MaxIface == 2

\* The controller's clock advances at most MaxTicks times, five minutes each.
MaxTicks == 1

\* Devices checking in, being added or being removed while a stream runs.
MaxChurn == 2

-----------------------------------------------------------------------------
(* Python values                                                           *)

None == [t |-> "null", v |-> 0]
Str(s) == [t |-> "str", v |-> s]
Num(n) == [t |-> "int", v |-> n]
Bool(b) == [t |-> "bool", v |-> b]
List(items) == [t |-> "list", v |-> items]
Dict(pairs) == [t |-> "dict", v |-> pairs]
Tuple(items) == [t |-> "tuple", v |-> items]

\* The outcome of a call that ends in an uncaught exception.
Raised(kind) == [t |-> "raise", v |-> kind]

IsRaised(x) == x.t \in {"raise", "http_error"}

\* x is evaluated first; an exception raised there propagates, otherwise
\* the computation continues with its value.
Then(x, continue(_)) == IF IsRaised(x) THEN x ELSE continue(x)

\* isinstance(x, dict), isinstance(x, str), isinstance(x, list)
IsDict(x) == x.t = "dict"
IsStr(x) == x.t = "str"
IsList(x) == x.t = "list"

\* isinstance(val, (str, int, float, bool)) or val is None
IsScalarOrNone(x) == x.t \in {"str", "int", "bool", "null"}

\* Python truth value of a scalar, None, list, dict or tuple (bool(x)).
Truthy(x) ==
  CASE x.t = "null" -> FALSE
    [] x.t = "bool" -> x.v
    [] x.t = "int" -> x.v # 0
    [] x.t = "str" -> x.v # ""
    [] x.t = "list" -> Len(x.v) > 0
    [] x.t = "dict" -> Len(x.v) > 0
    [] x.t = "tuple" -> Len(x.v) > 0
    [] OTHER -> FALSE

\* a or b
Or(a, b) == IF Truthy(a) THEN a ELSE b

\* key in d, d[key] and list(d.keys()) for a dict d
HasKey(d, key) == \E i \in 1..Len(d.v) : d.v[i][1] = key
GetKey(d, key) == d.v[CHOOSE i \in 1..Len(d.v) : d.v[i][1] = key][2]
Keys(d) == [i \in 1..Len(d.v) |-> d.v[i][1]]

-----------------------------------------------------------------------------
(* Strings                                                                 *)

Char(s, i) == SubSeq(s, i, i)

Digits == {"0", "1", "2", "3", "4", "5", "6", "7", "8", "9"}

LowerOf ==
  [A |-> "a", B |-> "b", C |-> "c", D |-> "d", E |-> "e", F |-> "f", G |-> "g",
   H |-> "h", I |-> "i", J |-> "j", K |-> "k", L |-> "l", M |-> "m", N |-> "n",
   O |-> "o", P |-> "p", Q |-> "q", R |-> "r", S |-> "s", T |-> "t", U |-> "u",
   V |-> "v", W |-> "w", X |-> "x", Y |-> "y", Z |-> "z"]

WordChars == Digits \cup DOMAIN LowerOf \cup {LowerOf[c] : c \in DOMAIN LowerOf} \cup {"_"}

Whitespace == {" ", "\t", "\n", "\r"}

\* s.lower()
RECURSIVE lower(_)
lower(s) ==
  IF s = "" THEN ""
  ELSE LET c == Char(s, 1)
       IN (IF c \in DOMAIN LowerOf THEN LowerOf[c] ELSE c) \o lower(Tail(s))

\* s.strip()
RECURSIVE lstrip(_)
lstrip(s) == IF s # "" /\ Char(s, 1) \in Whitespace THEN lstrip(Tail(s)) ELSE s

RECURSIVE rstrip(_)
rstrip(s) ==
  IF s # "" /\ Char(s, Len(s)) \in Whitespace THEN rstrip(SubSeq(s, 1, Len(s) - 1)) ELSE s

strip(s) == rstrip(lstrip(s))

\* sub in s
Contains(s, sub) ==
  \E i \in 1..(Len(s) - Len(sub) + 1) : SubSeq(s, i, i + Len(sub) - 1) = sub

\* s.startswith(prefix)
startswith(s, prefix) == Len(s) >= Len(prefix) /\ SubSeq(s, 1, Len(prefix)) = prefix

\* s.isdigit()
isdigit(s) == s # "" /\ \A i \in 1..Len(s) : Char(s, i) \in Digits

\* Index of the first occurrence of the character c in s at or after i, 0 if none.
RECURSIVE Find(_, _, _)
Find(s, c, i) ==
  IF i > Len(s) THEN 0 ELSE IF Char(s, i) = c THEN i ELSE Find(s, c, i + 1)

\* s.split(".")
RECURSIVE split(_)
split(s) ==
  LET i == Find(s, ".", 1)
  IN IF i = 0 THEN <<s>>
     ELSE <<SubSeq(s, 1, i - 1)>> \o split(SubSeq(s, i + 1, Len(s)))

-----------------------------------------------------------------------------
(* Regular expressions used by the resolvers                               *)

IsWordAt(s, p) == p >= 1 /\ p <= Len(s) /\ Char(s, p) \in WordChars

\* The maximal run of digits of s that starts at position i.
RECURSIVE DigitRun(_, _)
DigitRun(s, i) ==
  IF i <= Len(s) /\ Char(s, i) \in Digits THEN Char(s, i) \o DigitRun(s, i + 1) ELSE ""

\* re.search(<prefix>(\d+), s): group 1 of the leftmost match, None if no match.
\* prefix is the literal text in front of the group.
re_search_digits(prefix, s) ==
  LET n == Len(prefix)
      hits == {i \in 1..(Len(s) - n) :
                 SubSeq(s, i, i + n - 1) = prefix /\ Char(s, i + n) \in Digits}
  IN IF hits = {} THEN None
     ELSE LET first == CHOOSE i \in hits : \A j \in hits : i <= j
          IN Str(DigitRun(s, first + n))

\* re.search(r"\b11(<alts>)\b", s) is not None
re_search_11(alts, s) ==
  \E i \in 1..(Len(s) - 1) :
    /\ SubSeq(s, i, i + 1) = "11"
    /\ ~IsWordAt(s, i - 1)
    /\ \E a \in alts :
         /\ i + 1 + Len(a) <= Len(s)
         /\ SubSeq(s, i + 2, i + 1 + Len(a)) = a
         /\ ~IsWordAt(s, i + 2 + Len(a))

-----------------------------------------------------------------------------
(* Path Accessor                                                           *)

\* The loop of extract_value_from_path and _get_node: the node reached by
\* parts from cur, or the marker "absent" where the code returns None early.
Absent == [t |-> "absent", v |-> 0]

\* part in cur, for any Python value cur
py_in(part, cur) ==
  CASE cur.t = "dict" -> Bool(HasKey(cur, part))
    [] cur.t = "list" -> Bool(\E i \in 1..Len(cur.v) : cur.v[i] = Str(part))
    [] cur.t = "str" -> Bool(Contains(cur.v, part))
    [] OTHER -> Raised("TypeError")

\* cur[part], for any Python value cur and a str part
py_getitem(cur, part) ==
  IF cur.t = "dict" /\ HasKey(cur, part) THEN GetKey(cur, part) ELSE Raised("TypeError")

\* walk without the isinstance(cur, dict) test.
RECURSIVE walk_unguarded(_, _)
walk_unguarded(cur, parts) ==
  IF parts = <<>> THEN cur
  ELSE Then(py_in(Head(parts), cur), LAMBDA has :
         IF has.v
         THEN Then(py_getitem(cur, Head(parts)), LAMBDA nxt : walk_unguarded(nxt, Tail(parts)))
         ELSE Absent)

RECURSIVE walk(_, _)
walk(cur, parts) ==
  IF parts = <<>> THEN cur
  ELSE IF IsDict(cur) /\ HasKey(cur, Head(parts))
       THEN walk(GetKey(cur, Head(parts)), Tail(parts))
       ELSE Absent

\* extract_value_from_path without the checks that keep containers back.
extract_value_from_path_raw(d, dotted_path) ==
  Then(walk(d, split(dotted_path)), LAMBDA cur :
    IF cur = Absent THEN None
    ELSE IF IsDict(cur) /\ HasKey(cur, "_value") THEN GetKey(cur, "_value")
         ELSE cur)

extract_value_from_path(d, dotted_path) ==
  Then(walk(d, split(dotted_path)), LAMBDA cur :
    IF cur = Absent THEN None
    ELSE IF IsDict(cur) /\ HasKey(cur, "_value")
         THEN LET val == GetKey(cur, "_value")
              IN IF IsScalarOrNone(val) THEN val ELSE None
         ELSE IF IsDict(cur) \/ IsList(cur) THEN None
              ELSE cur)

_get_node(d, dotted_path) ==
  Then(walk(d, split(dotted_path)), LAMBDA cur :
    IF cur # Absent /\ IsDict(cur) THEN cur ELSE None)

\* [k for k in node.keys() if k.isdigit()]
_iter_idx(node) ==
  IF ~IsDict(node) THEN <<>> ELSE SelectSeq(Keys(node), isdigit)

\* extract_value_from_path(doc, path) is not None
_has_value(d, path) ==
  Then(extract_value_from_path(d, path), LAMBDA val : Bool(val # None))

-----------------------------------------------------------------------------
(* Schema Detector: TR-181 band mapping                                    *)

\* d[key] = value on a Python dict: an existing key keeps its position, a
\* new key is appended.
DictSet(d, key, value) ==
  IF HasKey(d, key)
  THEN Dict([i \in 1..Len(d.v) |-> IF d.v[i][1] = key THEN <<key, value>> ELSE d.v[i]])
  ELSE Dict(Append(d.v, <<key, value>>))

\* for r in _iter_idx(radios): radio_band[r] = band if it is a str
RECURSIVE radio_band_loop(_, _, _)
radio_band_loop(d, idxs, acc) ==
  IF idxs = <<>> THEN acc
  ELSE LET r == Head(idxs)
       IN Then(extract_value_from_path(d, "Device.WiFi.Radio." \o r \o ".OperatingFrequencyBand"),
               LAMBDA band :
                 radio_band_loop(d, Tail(idxs),
                                 IF IsStr(band) THEN DictSet(acc, r, band.v) ELSE acc))

\* The two reference loops: for i in _iter_idx(nodes): out[i] = group(1) of
\* the reference attribute when it is a str and the pattern matches.
RECURSIVE ref_loop(_, _, _, _, _, _)
ref_loop(d, idxs, base, attr, pattern, acc) ==
  IF idxs = <<>> THEN acc
  ELSE LET i == Head(idxs)
       IN Then(extract_value_from_path(d, base \o i \o attr), LAMBDA ref :
            LET m2 == IF IsStr(ref) THEN re_search_digits(pattern, ref.v) ELSE None
            IN ref_loop(d, Tail(idxs), base, attr, pattern,
                        IF m2 # None THEN DictSet(acc, i, m2.v) ELSE acc))

KnownBands == {"2.4GHz", "5GHz"}

\* The composition without the filter on the two known bands.
RECURSIVE compose_loop_any_band(_, _, _, _)
compose_loop_any_band(items, ssid_radio, radio_band, m) ==
  IF items = <<>> THEN m
  ELSE LET ap_k == Head(items)[1]
           ssid_i == Head(items)[2]
           r == IF HasKey(ssid_radio, ssid_i) THEN GetKey(ssid_radio, ssid_i) ELSE ""
           b == IF HasKey(radio_band, r) THEN GetKey(radio_band, r) ELSE ""
       IN compose_loop_any_band(Tail(items), ssid_radio, radio_band,
                                IF b # "" THEN DictSet(m, b, <<ssid_i, ap_k, r>>) ELSE m)

\* for ap_k, ssid_i in ap_ssid.items(): m[b] = (ssid_i, ap_k, r or "")
RECURSIVE compose_loop(_, _, _, _)
compose_loop(items, ssid_radio, radio_band, m) ==
  IF items = <<>> THEN m
  ELSE LET ap_k == Head(items)[1]
           ssid_i == Head(items)[2]
           r == IF HasKey(ssid_radio, ssid_i) THEN GetKey(ssid_radio, ssid_i) ELSE ""
           b == IF HasKey(radio_band, r) THEN GetKey(radio_band, r) ELSE ""
       IN compose_loop(Tail(items), ssid_radio, radio_band,
                       IF b \in KnownBands THEN DictSet(m, b, <<ssid_i, ap_k, r>>) ELSE m)

\* {band: (ssid_i, ap_k, radio_j)}
map_tr181_by_band(d) ==
  Then(_get_node(d, "Device.WiFi"), LAMBDA wifi :
    IF ~Truthy(wifi) THEN Dict(<<>>)
    ELSE
      Then(_get_node(wifi, "Radio"), LAMBDA radios :
      Then(_get_node(wifi, "SSID"), LAMBDA ssids :
      Then(_get_node(wifi, "AccessPoint"), LAMBDA aps :
        IF ~(Truthy(radios) /\ Truthy(ssids) /\ Truthy(aps)) THEN Dict(<<>>)
        ELSE
          Then(radio_band_loop(d, _iter_idx(radios), Dict(<<>>)), LAMBDA radio_band :
          Then(ref_loop(d, _iter_idx(ssids), "Device.WiFi.SSID.", ".LowerLayers",
                        "Device.WiFi.Radio.", Dict(<<>>)), LAMBDA ssid_radio :
          Then(ref_loop(d, _iter_idx(aps), "Device.WiFi.AccessPoint.", ".SSIDReference",
                        "Device.WiFi.SSID.", Dict(<<>>)), LAMBDA ap_ssid :
            compose_loop(ap_ssid.v, ssid_radio, radio_band, Dict(<<>>)))))))))

-----------------------------------------------------------------------------
(* Band Resolver                                                           *)

WLAN == "InternetGatewayDevice.LANDevice.1.WLANConfiguration"

\* Step 1 of resolve_wifi_params_tr098 for one instance: its X_TP_Band is a
\* str that indicates the requested band.
band_hint_matches(d, i, band) ==
  Then(extract_value_from_path(d, WLAN \o "." \o i \o ".X_TP_Band"), LAMBDA b :
    IF ~IsStr(b) THEN Bool(FALSE)
    ELSE LET bl == lower(b.v)
         IN Bool(\/ band = "2.4GHz" /\ (Contains(bl, "2.4") \/ Contains(bl, "24"))
                 \/ band = "5GHz" /\ (Contains(bl, "5g") \/ strip(bl) = "5" \/ Contains(bl, " 5"))))

\* Step 2 for one instance: its Standard is a str of the requested band.
standard_matches(d, i, band) ==
  Then(extract_value_from_path(d, WLAN \o "." \o i \o ".Standard"), LAMBDA std :
    IF ~IsStr(std) THEN Bool(FALSE)
    ELSE LET s == lower(std.v)
         IN Bool(\/ band = "2.4GHz" /\ re_search_11({"b", "g", "n"}, s)
                 \/ band = "5GHz" /\ re_search_11({"a", "ac", "ax"}, s)))

\* for i in idxs: if <test>: target_idx = i; break      (None when no break)
RECURSIVE first_match(_, _, _, _)
first_match(test(_, _, _), d, idxs, band) ==
  IF idxs = <<>> THEN None
  ELSE Then(test(d, Head(idxs), band), LAMBDA hit :
         IF hit.v THEN Str(Head(idxs)) ELSE first_match(test, d, Tail(idxs), band))

\* tr098_target_idx with the 5 GHz default fixed at "2".
tr098_target_idx_default2(d, band) ==
  Then(_get_node(d, WLAN), LAMBDA wl :
    LET idxs == _iter_idx(wl)
    IN Then(first_match(band_hint_matches, d, idxs, band), LAMBDA by_band :
         IF Truthy(by_band) THEN by_band
         ELSE Then(first_match(standard_matches, d, idxs, band), LAMBDA by_std :
                IF Truthy(by_std) THEN by_std
                ELSE IF band = "2.4GHz" THEN Str("1") ELSE Str("2"))))

\* tr098_target_idx with the Standard step tried before the X_TP_Band step.
tr098_target_idx_std_first(d, band) ==
  Then(_get_node(d, WLAN), LAMBDA wl :
    LET idxs == _iter_idx(wl)
    IN Then(first_match(standard_matches, d, idxs, band), LAMBDA by_std :
         IF Truthy(by_std) THEN by_std
         ELSE Then(first_match(band_hint_matches, d, idxs, band), LAMBDA by_band :
                IF Truthy(by_band) THEN by_band
                ELSE IF band = "2.4GHz" THEN Str("1")
                     ELSE Then(_has_value(d, WLAN \o ".3.SSID"), LAMBDA has3 :
                            IF has3.v THEN Str("3") ELSE Str("2")))))

\* The instance resolve_wifi_params_tr098 selects (target_idx).
tr098_target_idx(d, band) ==
  Then(_get_node(d, WLAN), LAMBDA wl :
    LET idxs == _iter_idx(wl)
    IN Then(first_match(band_hint_matches, d, idxs, band), LAMBDA by_band :
         IF Truthy(by_band) THEN by_band
         ELSE Then(first_match(standard_matches, d, idxs, band), LAMBDA by_std :
                IF Truthy(by_std) THEN by_std
                ELSE IF band = "2.4GHz" THEN Str("1")
                     ELSE Then(_has_value(d, WLAN \o ".3.SSID"), LAMBDA has3 :
                            IF has3.v THEN Str("3") ELSE Str("2")))))

\* pwd = a if _has_value(doc, a) else b
pick_password_path_if_present(d, a, b) ==
  Then(_has_value(d, a), LAMBDA has_a : IF has_a.v THEN Str(a) ELSE Str(b))

\* pwd = a if _has_value(doc, a) or not _has_value(doc, b) else b
pick_password_path(d, a, b) ==
  Then(_has_value(d, a), LAMBDA has_a :
    IF has_a.v THEN Str(a)
    ELSE Then(_has_value(d, b), LAMBDA has_b :
           IF ~has_b.v THEN Str(a) ELSE Str(b)))

\* (ssid, pwd)
resolve_wifi_params_tr098(d, band) ==
  Then(tr098_target_idx(d, band), LAMBDA target_idx :
    LET base == WLAN \o "." \o target_idx.v
        ssid == base \o ".SSID"
        kp == base \o ".PreSharedKey.1.KeyPassphrase"
        ps == base \o ".PreSharedKey.1.PreSharedKey"
    IN Then(pick_password_path(d, kp, ps), LAMBDA pwd : Tuple(<<ssid, pwd.v>>)))

\* resolve_wifi_params_tr181 answering with instance 1 when the band is not
\* in the mapping.
resolve_wifi_params_tr181_default(d, band) ==
  Then(map_tr181_by_band(d), LAMBDA mapping :
    LET ssid_i == IF HasKey(mapping, band) THEN GetKey(mapping, band)[1] ELSE "1"
        ap_k == IF HasKey(mapping, band) THEN GetKey(mapping, band)[2] ELSE "1"
        ssid_path == "Device.WiFi.SSID." \o ssid_i \o ".SSID"
        pass_a == "Device.WiFi.AccessPoint." \o ap_k \o ".Security.KeyPassphrase"
        pass_b == "Device.WiFi.AccessPoint." \o ap_k \o ".Security.PreSharedKey"
    IN Then(pick_password_path(d, pass_a, pass_b), LAMBDA pwd :
         Tuple(<<ssid_path, pwd.v>>)))

\* resolve_wifi_params_tr181 unpacking the entry as (ap_k, ssid_i, radio).
resolve_wifi_params_tr181_swapped(d, band) ==
  Then(map_tr181_by_band(d), LAMBDA mapping :
    IF ~HasKey(mapping, band) THEN None
    ELSE LET ap_k == GetKey(mapping, band)[1]
             ssid_i == GetKey(mapping, band)[2]
             ssid_path == "Device.WiFi.SSID." \o ssid_i \o ".SSID"
             pass_a == "Device.WiFi.AccessPoint." \o ap_k \o ".Security.KeyPassphrase"
             pass_b == "Device.WiFi.AccessPoint." \o ap_k \o ".Security.PreSharedKey"
         IN Then(pick_password_path(d, pass_a, pass_b), LAMBDA pwd :
              Tuple(<<ssid_path, pwd.v>>)))

\* (ssid_path, pwd), or None when the band is not in the mapping
resolve_wifi_params_tr181(d, band) ==
  Then(map_tr181_by_band(d), LAMBDA mapping :
    IF ~HasKey(mapping, band) THEN None
    ELSE LET ssid_i == GetKey(mapping, band)[1]
             ap_k == GetKey(mapping, band)[2]
             ssid_path == "Device.WiFi.SSID." \o ssid_i \o ".SSID"
             pass_a == "Device.WiFi.AccessPoint." \o ap_k \o ".Security.KeyPassphrase"
             pass_b == "Device.WiFi.AccessPoint." \o ap_k \o ".Security.PreSharedKey"
         IN Then(pick_password_path(d, pass_a, pass_b), LAMBDA pwd :
              Tuple(<<ssid_path, pwd.v>>)))

\* resolve_wifi_params as in v0.5.2: the legacy scheme only.
resolve_wifi_params_legacy_only(d, band) == resolve_wifi_params_tr098(d, band)

resolve_wifi_params(d, band) ==
  Then(resolve_wifi_params_tr181(d, band), LAMBDA r :
    IF Truthy(r) THEN r ELSE resolve_wifi_params_tr098(d, band))

-----------------------------------------------------------------------------
(* Identity/Network Resolver                                               *)

Letters == DOMAIN LowerOf \cup {LowerOf[c] : c \in DOMAIN LowerOf}

SchemeChars == Letters \cup Digits \cup {"+", "-", "."}

\* Index of the first character of s at or after i that is in cs, Len(s)+1 if none.
RECURSIVE FindAny(_, _, _)
FindAny(s, cs, i) ==
  IF i > Len(s) THEN Len(s) + 1
  ELSE IF Char(s, i) \in cs THEN i ELSE FindAny(s, cs, i + 1)

\* Index of the last occurrence of the character c in s at or before i, 0 if none.
RECURSIVE RFind(_, _, _)
RFind(s, c, i) ==
  IF i < 1 THEN 0 ELSE IF Char(s, i) = c THEN i ELSE RFind(s, c, i - 1)

\* try: host = urlparse(cr).hostname; if host: return host / except: pass
\* The host as a str, or None when there is none or when urlparse raises
\* ValueError (unbalanced brackets in the network location).
url_hostname(url) ==
  LET colon == Find(url, ":", 1)
      has_scheme == /\ colon > 1
                    /\ Char(url, 1) \in Letters
                    /\ \A i \in 1..(colon - 1) : Char(url, i) \in SchemeChars
      rest == IF has_scheme THEN SubSeq(url, colon + 1, Len(url)) ELSE url
  IN IF Len(rest) < 2 \/ SubSeq(rest, 1, 2) # "//" THEN None
     ELSE LET stop == FindAny(rest, {"/", "?", "#"}, 3)
              netloc == SubSeq(rest, 3, stop - 1)
              open == Find(netloc, "[", 1) > 0
              close == Find(netloc, "]", 1) > 0
          IN IF open # close THEN None
             ELSE LET at == RFind(netloc, "@", Len(netloc))
                      hostinfo == SubSeq(netloc, at + 1, Len(netloc))
                      br == Find(hostinfo, "[", 1)
                      hostname ==
                        IF br > 0
                        THEN LET bracketed == SubSeq(hostinfo, br + 1, Len(hostinfo))
                                 cl == Find(bracketed, "]", 1)
                             IN IF cl = 0 THEN bracketed ELSE SubSeq(bracketed, 1, cl - 1)
                        ELSE LET c == Find(hostinfo, ":", 1)
                             IN IF c = 0 THEN hostinfo ELSE SubSeq(hostinfo, 1, c - 1)
                  IN IF hostname = "" THEN None ELSE Str(lower(hostname))

\* status_is_up without the status filter: any interface that reports a status.
status_is_reported(en) == en # None

\* en in ("Up", "UP", "Enabled", True)        (1 == True in Python)
status_is_up(en) ==
  \/ IsStr(en) /\ en.v \in {"Up", "UP", "Enabled"}
  \/ en.t = "bool" /\ en.v
  \/ en.t = "int" /\ en.v = 1

\* isinstance(v, str) and v
NonEmptyStr(x) == IsStr(x) /\ x.v # ""

\* for i in _iter_idx(iface): return the address of the first interface that
\* is up and has one
RECURSIVE wan_iface_loop(_, _)
wan_iface_loop(d, idxs) ==
  IF idxs = <<>> THEN None
  ELSE LET i == Head(idxs)
       IN Then(extract_value_from_path(d, "Device.IP.Interface." \o i \o ".Status"), LAMBDA en :
          Then(extract_value_from_path(d, "Device.IP.Interface." \o i \o ".IPv4Address.1.IPAddress"),
               LAMBDA addr :
                 IF status_is_up(en) /\ NonEmptyStr(addr) THEN addr
                 ELSE wan_iface_loop(d, Tail(idxs))))

\* for p in (...): v = extract_value_from_path(doc, p); if isinstance(v, str) and v: return v
RECURSIVE first_nonempty_str(_, _)
first_nonempty_str(d, paths) ==
  IF paths = <<>> THEN None
  ELSE Then(extract_value_from_path(d, Head(paths)), LAMBDA val :
         IF NonEmptyStr(val) THEN val ELSE first_nonempty_str(d, Tail(paths)))

\* extract_value_from_path(doc, p1) or extract_value_from_path(doc, p2) or ...
RECURSIVE or_chain(_, _)
or_chain(d, paths) ==
  IF Len(paths) = 1 THEN extract_value_from_path(d, Head(paths))
  ELSE Then(extract_value_from_path(d, Head(paths)), LAMBDA val :
         IF Truthy(val) THEN val ELSE or_chain(d, Tail(paths)))

WanPaths ==
  <<"InternetGatewayDevice.WANDevice.1.WANConnectionDevice.1.WANIPConnection.1.ExternalIPAddress",
    "InternetGatewayDevice.WANDevice.1.WANConnectionDevice.2.WANIPConnection.1.ExternalIPAddress",
    "InternetGatewayDevice.WANDevice.1.WANConnectionDevice.1.WANPPPConnection.1.ExternalIPAddress">>

CrUrlPaths ==
  <<"InternetGatewayDevice.ManagementServer.ConnectionRequestURL",
    "Device.ManagementServer.ConnectionRequestURL">>

resolve_wan_ipv4(d) ==
  Then(_get_node(d, "Device.IP.Interface"), LAMBDA iface :
  Then(IF Truthy(iface) THEN wan_iface_loop(d, _iter_idx(iface)) ELSE None, LAMBDA by_iface :
    IF by_iface # None THEN by_iface
    ELSE Then(first_nonempty_str(d, WanPaths), LAMBDA by_path :
           IF by_path # None THEN by_path
           ELSE Then(or_chain(d, CrUrlPaths), LAMBDA cr :
                  IF IsStr(cr) THEN url_hostname(cr.v) ELSE None))))

LanPaths ==
  <<"InternetGatewayDevice.LANDevice.1.LANHostConfigManagement.IPInterface.1.IPInterfaceIPAddress",
    "InternetGatewayDevice.LANDevice.1.LANHostConfigManagement.IPInterface.1.IPAddress",
    "Device.LAN.IPAddress",
    "Device.IP.Interface.1.IPv4Address.1.IPAddress">>

resolve_lan_ipv4(d) == first_nonempty_str(d, LanPaths)

\* VendorPaths with the hierarchical path first.
VendorPaths_hier_first ==
  <<"Device.DeviceInfo.Manufacturer", "InternetGatewayDevice.DeviceInfo.Manufacturer">>

VendorPaths ==
  <<"InternetGatewayDevice.DeviceInfo.Manufacturer", "Device.DeviceInfo.Manufacturer">>

ModelPaths ==
  <<"InternetGatewayDevice.DeviceInfo.ProductClass", "Device.DeviceInfo.ProductClass",
    "Device.DeviceInfo.ModelName">>

FwPaths ==
  <<"InternetGatewayDevice.DeviceInfo.SoftwareVersion", "Device.DeviceInfo.SoftwareVersion">>

SerialPaths ==
  <<"InternetGatewayDevice.DeviceInfo.SerialNumber", "Device.DeviceInfo.SerialNumber">>

\* (vendor, model, fw, serial)
resolve_vendor_model_fw(d) ==
  Then(or_chain(d, VendorPaths), LAMBDA vendor :
  Then(or_chain(d, ModelPaths), LAMBDA model :
  Then(or_chain(d, FwPaths), LAMBDA fw :
  Then(or_chain(d, SerialPaths), LAMBDA serial :
    Tuple(<<vendor, model, fw, serial>>)))))

Ssid5Paths == <<WLAN \o ".3.SSID", WLAN \o ".2.SSID">>

\* The TR-181 half of resolve_ssids for one band:
\* extract_value_from_path(doc, f"Device.WiFi.SSID.{m[band][0]}.SSID") if band in m else None
mapped_ssid(d, m, band) ==
  IF HasKey(m, band)
  THEN extract_value_from_path(d, "Device.WiFi.SSID." \o GetKey(m, band)[1] \o ".SSID")
  ELSE None

\* (s24, s5)
resolve_ssids(d) ==
  Then(map_tr181_by_band(d), LAMBDA m :
  Then(mapped_ssid(d, m, "2.4GHz"), LAMBDA s24a :
  Then(mapped_ssid(d, m, "5GHz"), LAMBDA s5a :
  Then(IF ~Truthy(s24a) THEN extract_value_from_path(d, WLAN \o ".1.SSID") ELSE s24a, LAMBDA s24 :
  Then(IF ~Truthy(s5a) THEN or_chain(d, Ssid5Paths) ELSE s5a, LAMBDA s5 :
    Tuple(<<s24, s5>>))))))

\* doc.get(key)
DocGet(d, key) == IF HasKey(d, key) THEN GetKey(d, key) ELSE None

\* tags_loop that goes on to the next tag when the suffix is empty.
RECURSIVE tags_loop_skip_empty(_)
tags_loop_skip_empty(tags) ==
  IF tags = <<>> THEN None
  ELSE LET t == Head(tags)
       IN IF IsStr(t) /\ startswith(t.v, "sub:") /\ Len(t.v) > Len("sub:")
          THEN Str(SubSeq(t.v, Find(t.v, ":", 1) + 1, Len(t.v)))
          ELSE tags_loop_skip_empty(Tail(tags))

\* for t in tags: if isinstance(t, str) and t.startswith("sub:"):
\*     return t.split(":", 1)[1] or None
RECURSIVE tags_loop(_)
tags_loop(tags) ==
  IF tags = <<>> THEN None
  ELSE LET t == Head(tags)
       IN IF IsStr(t) /\ startswith(t.v, "sub:")
          THEN Or(Str(SubSeq(t.v, Find(t.v, ":", 1) + 1, Len(t.v))), None)
          ELSE tags_loop(Tail(tags))

pick_subscriber_from_tags(d) ==
  LET tags == DocGet(d, "_tags")
  IN IF IsList(tags) THEN tags_loop(tags.v) ELSE None

StunPaths ==
  <<"InternetGatewayDevice.ManagementServer.STUNEnable", "Device.ManagementServer.STUNEnable">>

InformPaths ==
  <<"InternetGatewayDevice.ManagementServer.PeriodicInformInterval",
    "Device.ManagementServer.PeriodicInformInterval">>

\* The body of device_detail after the fetch: the summary built from the
\* fetched document d.
device_summary(device_id, d) ==
  Then(resolve_vendor_model_fw(d), LAMBDA vmfs :
  Then(resolve_wan_ipv4(d), LAMBDA ip_wan :
  Then(resolve_lan_ipv4(d), LAMBDA ip_lan :
  Then(resolve_ssids(d), LAMBDA ss :
  Then(or_chain(d, CrUrlPaths), LAMBDA cr_url :
  Then(or_chain(d, StunPaths), LAMBDA stun_enable :
  Then(or_chain(d, InformPaths), LAMBDA pii :
  Then(pick_subscriber_from_tags(d), LAMBDA sub :
    Dict(<< <<"device_id", Str(device_id)>>,
            <<"serial_number", Or(vmfs.v[4], Str(device_id))>>,
            <<"vendor", vmfs.v[1]>>,
            <<"product_class", Or(vmfs.v[2], Str("UNKNOWN"))>>,
            <<"software_version", vmfs.v[3]>>,
            <<"last_inform", DocGet(d, "_lastInform")>>,
            <<"tags", Or(DocGet(d, "_tags"), List(<<>>))>>,
            <<"subscriber", sub>>,
            <<"ip", Dict(<< <<"wan_ipv4", ip_wan>>, <<"lan_ipv4", ip_lan>> >>)>>,
            <<"wifi", Dict(<< <<"ssid_24", ss.v[1]>>, <<"ssid_5", ss.v[2]>> >>)>>,
            <<"mgmt", Dict(<< <<"conn_req_url", cr_url>>,
                              <<"stun_enable", Bool(Truthy(stun_enable))>>,
                              <<"periodic_inform_interval", pii>> >>)>> >>)))))))))

-----------------------------------------------------------------------------
(* Timestamps                                                              *)

\* The printable ASCII characters in code-point order: 32 (space) to 95, and
\* 97 to 126.
AsciiUpper ==
  " !\"#$%&'()*+,-./0123456789:;<=>?@ABCDEFGHIJKLMNOPQRSTUVWXYZ[\\]^_"

AsciiLower == "abcdefghijklmnopqrstuvwxyz{|}~"

\* ord(c) for a printable ASCII character.
Ord(c) ==
  IF Find(AsciiUpper, c, 1) > 0 THEN 31 + Find(AsciiUpper, c, 1)
  ELSE 96 + Find(AsciiLower, c, 1)

\* a < b and a >= b on str: lexicographic by code point, a proper prefix is smaller.
RECURSIVE str_lt(_, _)
str_lt(a, b) ==
  IF b = "" THEN FALSE
  ELSE IF a = "" THEN TRUE
  ELSE IF Char(a, 1) = Char(b, 1) THEN str_lt(Tail(a), Tail(b))
  ELSE Ord(Char(a, 1)) < Ord(Char(b, 1))

str_ge(a, b) == ~str_lt(a, b)

\* s.replace(old, new) for a non-empty old.
RECURSIVE replace(_, _, _)
replace(s, old, new) ==
  IF Len(s) < Len(old) THEN s
  ELSE IF SubSeq(s, 1, Len(old)) = old
       THEN new \o replace(SubSeq(s, Len(old) + 1, Len(s)), old, new)
       ELSE Char(s, 1) \o replace(Tail(s), old, new)

DecimalDigit == <<"0", "1", "2", "3", "4", "5", "6", "7", "8", "9">>

\* format(n, "0<width>d") for n >= 0.
RECURSIVE zero_padded(_, _)
zero_padded(n, width) ==
  IF width <= 1 /\ n < 10 THEN DecimalDigit[n + 1]
  ELSE zero_padded(n \div 10, width - 1) \o DecimalDigit[(n % 10) + 1]

\* datetime(year, month, day, hour, minute, second, microsecond), naive UTC.
datetime(y, mo, d, h, mi, sec, us) ==
  [year |-> y, month |-> mo, day |-> d, hour |-> h, minute |-> mi, second |-> sec,
   microsecond |-> us]

is_leap(y) == y % 4 = 0 /\ (y % 100 # 0 \/ y % 400 = 0)

DaysInMonth == <<31, 28, 31, 30, 31, 30, 31, 31, 30, 31, 30, 31>>

days_in_month(y, m) == IF m = 2 /\ is_leap(y) THEN 29 ELSE DaysInMonth[m]

\* Days of the year that precede the first day of month m.
RECURSIVE days_before_month(_, _)
days_before_month(y, m) ==
  IF m = 1 THEN 0 ELSE days_before_month(y, m - 1) + days_in_month(y, m - 1)

\* Days that precede January 1st of year y, counting from year 1.
days_before_year(y) ==
  (y - 1) * 365 + (y - 1) \div 4 - (y - 1) \div 100 + (y - 1) \div 400

\* Proleptic Gregorian ordinal: January 1st of year 1 is day 1.
ymd2ord(y, m, d) == days_before_year(y) + days_before_month(y, m) + d

\* The month and day of the n-th day (from 0) of year y.
RECURSIVE month_day(_, _, _)
month_day(y, m, n) ==
  IF n < days_in_month(y, m) THEN <<m, n + 1>>
  ELSE month_day(y, m + 1, n - days_in_month(y, m))

\* The <<year, month, day>> of an ordinal.
ord2ymd(ordinal) ==
  LET n0 == ordinal - 1
      n400 == n0 \div 146097
      r400 == n0 % 146097
      n100 == r400 \div 36524
      r100 == r400 % 36524
      n4 == r100 \div 1461
      r4 == r100 % 1461
      n1 == r4 \div 365
      r1 == r4 % 365
      y == n400 * 400 + 1 + n100 * 100 + n4 * 4 + n1
  IN IF n1 = 4 \/ n100 = 4 THEN <<y - 1, 12, 31>>
     ELSE <<y>> \o month_day(y, 1, r1)

\* dt - timedelta(seconds=seconds), for seconds >= 0: days and seconds of the
\* day are subtracted separately, with a borrow of one day.
minus_seconds(dt, seconds) ==
  LET of_day == dt.hour * 3600 + dt.minute * 60 + dt.second - (seconds % 86400)
      borrow == IF of_day < 0 THEN 1 ELSE 0
      rest == of_day + borrow * 86400
      ymd == ord2ymd(ymd2ord(dt.year, dt.month, dt.day) - (seconds \div 86400) - borrow)
  IN datetime(ymd[1], ymd[2], ymd[3], rest \div 3600, (rest % 3600) \div 60, rest % 60,
              dt.microsecond)

\* dt.isoformat() of a datetime in UTC
isoformat(dt) ==
  zero_padded(dt.year, 4) \o "-" \o zero_padded(dt.month, 2) \o "-" \o zero_padded(dt.day, 2)
  \o "T" \o zero_padded(dt.hour, 2) \o ":" \o zero_padded(dt.minute, 2)
  \o ":" \o zero_padded(dt.second, 2)
  \o (IF dt.microsecond # 0 THEN "." \o zero_padded(dt.microsecond, 6) ELSE "")
  \o "+00:00"

\* _iso: the naive datetime is taken as UTC.
_iso(dt) == replace(isoformat(dt), "+00:00", "Z")

-----------------------------------------------------------------------------
(* Device documents returned by the controller                             *)

\* A parameter node as the controller stores it: {"_value": value}.
Leaf(value) == Dict(<< <<"_value", value>> >>)

\* The document with the node at the dotted path replaced by new; missing
\* objects on the way are created, new keys go last in document order.
RECURSIVE SetAt(_, _, _)
SetAt(node, parts, new) ==
  IF parts = <<>> THEN new
  ELSE LET base == IF IsDict(node) THEN node ELSE Dict(<<>>)
           child == IF HasKey(base, Head(parts)) THEN GetKey(base, Head(parts)) ELSE Dict(<<>>)
       IN DictSet(base, Head(parts), SetAt(child, Tail(parts), new))

\* The document built by a sequence of <<dotted path, node>> assignments.
RECURSIVE Build(_, _)
Build(base, assigns) ==
  IF assigns = <<>> THEN base
  ELSE Build(SetAt(base, split(Head(assigns)[1]), Head(assigns)[2]), Tail(assigns))

\* Every document carries its identifier.
BaseDoc == Dict(<< <<"_id", Str("001122-EX141-SN1")>> >>)

DigitStr == <<"1", "2", "3", "4", "5", "6", "7", "8", "9">>

\* Concatenation of a sequence of sequences.
RECURSIVE Flatten(_)
Flatten(ss) == IF ss = <<>> THEN <<>> ELSE Head(ss) \o Flatten(Tail(ss))

Reverse(q) == [i \in 1..Len(q) |-> q[Len(q) + 1 - i]]

\* --- legacy (TR-098) documents ---

\* What one WLAN-configuration instance holds.
InstProfiles == {"absent", "plain", "hint5", "hint24", "std5", "std24"}

InstAssigns(i, profile) ==
  LET b == WLAN \o "." \o DigitStr[i]
  IN CASE profile = "absent" -> <<>>
       [] profile = "plain" ->
            << <<b \o ".SSID", Leaf(Str("net" \o DigitStr[i]))>>,
               <<b \o ".PreSharedKey.1.KeyPassphrase", Leaf(Str("secret"))>> >>
       [] profile = "hint5" ->
            << <<b \o ".X_TP_Band", Leaf(Str("5GHz"))>>,
               <<b \o ".SSID", Leaf(Str("net" \o DigitStr[i]))>>,
               <<b \o ".PreSharedKey.1.PreSharedKey", Leaf(Str("psk"))>> >>
       [] profile = "hint24" ->
            << <<b \o ".X_TP_Band", Leaf(Str("2.4GHz"))>>,
               <<b \o ".SSID", Leaf(Str("net" \o DigitStr[i]))>>,
               <<b \o ".PreSharedKey.1.KeyPassphrase", Leaf(Str(""))>>,
               <<b \o ".PreSharedKey.1.PreSharedKey", Leaf(Str("psk"))>> >>
       [] profile = "std5" ->
            << <<b \o ".Standard", Leaf(Str("11ac"))>>,
               <<b \o ".SSID", Leaf(Str(""))>>,
               <<b \o ".PreSharedKey.1.KeyPassphrase", Dict(<<>>)>> >>
       [] profile = "std24" ->
            << <<b \o ".Standard", Leaf(Str("11N"))>>,
               <<b \o ".SSID", Leaf(Str("net" \o DigitStr[i]))>>,
               <<b \o ".PreSharedKey.1.KeyPassphrase", Leaf(None)>>,
               <<b \o ".PreSharedKey.1.PreSharedKey", Leaf(Str("psk"))>> >>

\* The instances in ascending or descending document order.
LegacyAssigns(profiles, ascending) ==
  LET n == Len(profiles)
      order == IF ascending THEN [i \in 1..n |-> i] ELSE [i \in 1..n |-> n + 1 - i]
  IN <<  <<"InternetGatewayDevice.DeviceInfo.ProductClass", Leaf(Str("EX141"))>> >>
     \o Flatten([j \in 1..n |-> InstAssigns(order[j], profiles[order[j]])])

LegacyDocs ==
  {Build(BaseDoc, LegacyAssigns(ps, asc)) :
     ps \in [1..MaxInst -> InstProfiles], asc \in BOOLEAN}

\* --- hierarchical (TR-181) documents ---

\* Radio instances and their operating frequency band, in document order.
RadioLayouts ==
  { << <<"1", "2.4GHz">>, <<"2", "5GHz">> >>,
    << <<"1", "5GHz">> >>,
    << <<"2", "6GHz">>, <<"1", "5GHz">> >> }

\* SSID instances and their LowerLayers reference ("" for no attribute).
SsidLayouts ==
  { << <<"1", "Device.WiFi.Radio.1">>, <<"2", "Device.WiFi.Radio.2">> >>,
    << <<"2", "Device.WiFi.Radio.1.">>, <<"1", "Device.WiFi.Radio.2,Device.WiFi.Radio.1">> >>,
    << <<"1", "">>, <<"2", "Device.WiFi.Radio.2">> >> }

\* Which of the two password parameters of an access point hold a value.
PwCombos == {"kp", "ps", "both", "neither"}

\* Access points <<instance, referenced SSID instance, password combination>>:
\* one access point, or two that serve different SSIDs or the same SSID.
ApLayouts ==
  { << <<a, sid, pw>> >> : a \in 1..MaxAp, sid \in 1..2, pw \in PwCombos }
  \cup { << <<pr[1], 1, "kp">>, <<pr[2], sid, "ps">> >> :
           pr \in {q \in (1..MaxAp) \X (1..MaxAp) : q[1] # q[2]}, sid \in 1..2 }

RadioAssigns(rl) ==
  [j \in 1..Len(rl) |->
     <<"Device.WiFi.Radio." \o rl[j][1] \o ".OperatingFrequencyBand", Leaf(Str(rl[j][2]))>>]

SsidAssigns(sl) ==
  Flatten([j \in 1..Len(sl) |->
     << <<"Device.WiFi.SSID." \o sl[j][1] \o ".SSID", Leaf(Str("wifi" \o sl[j][1]))>> >>
     \o (IF sl[j][2] = "" THEN <<>>
         ELSE << <<"Device.WiFi.SSID." \o sl[j][1] \o ".LowerLayers", Leaf(Str(sl[j][2]))>> >>)])

ApAssigns(al) ==
  Flatten([j \in 1..Len(al) |->
     LET b == "Device.WiFi.AccessPoint." \o DigitStr[al[j][1]]
         pw == al[j][3]
     IN << <<b \o ".SSIDReference", Leaf(Str("Device.WiFi.SSID." \o DigitStr[al[j][2]]))>> >>
        \o (IF pw \in {"kp", "both"}
            THEN << <<b \o ".Security.KeyPassphrase", Leaf(Str("secret"))>> >> ELSE <<>>)
        \o (IF pw \in {"ps", "both"}
            THEN << <<b \o ".Security.PreSharedKey", Leaf(Str("psk"))>> >> ELSE <<>>)])

HierAssigns(rl, sl, al) ==
  << <<"Device.DeviceInfo.ModelName", Leaf(Str("HX510"))>> >>
  \o RadioAssigns(rl) \o SsidAssigns(sl) \o ApAssigns(al)

HierDocs ==
  {Build(BaseDoc, HierAssigns(rl, sl, al)) :
     rl \in RadioLayouts, sl \in SsidLayouts, al \in ApLayouts}

\* --- documents with both schemes populated ---

BothDocs ==
  {Build(Build(BaseDoc, LegacyAssigns(ps, TRUE)),
         HierAssigns(<< <<"1", "2.4GHz">>, <<"2", "5GHz">> >>,
                     << <<"1", "Device.WiFi.Radio.1">>, <<"2", "Device.WiFi.Radio.2">> >>,
                     << <<a, sid, pw>> >>)) :
     ps \in [1..MaxInst -> {"plain", "hint5"}],
     a \in 1..MaxAp, sid \in 1..2, pw \in {"kp", "ps"}}

\* --- documents that vary the values on the fallback chains ---

\* What a parameter on a fallback chain holds.
ValueVariants == {"absent", "str", "empty", "null", "zero", "false", "true", "obj"}

VariantNode(variant, text) ==
  CASE variant = "str" -> Leaf(Str(text))
    [] variant = "empty" -> Leaf(Str(""))
    [] variant = "null" -> Leaf(None)
    [] variant = "zero" -> Leaf(Num(0))
    [] variant = "false" -> Leaf(Bool(FALSE))
    [] variant = "true" -> Leaf(Bool(TRUE))
    [] variant = "obj" -> Leaf(Dict(<< <<"x", Str(text)>> >>))

\* <<parameter below the root object, legacy text, hierarchical text>>
ChainFields ==
  << <<"DeviceInfo.Manufacturer", "TP-Link", "Huawei">>,
     <<"DeviceInfo.ProductClass", "EX141", "HX510">>,
     <<"DeviceInfo.SoftwareVersion", "1.0.8", "2.1.0">>,
     <<"DeviceInfo.SerialNumber", "SN-L", "SN-H">>,
     <<"ManagementServer.ConnectionRequestURL", "http://100.64.0.1:7547/cr", "http://User@CPE.example:30005/">>,
     <<"ManagementServer.STUNEnable", "1", "0">>,
     <<"ManagementServer.PeriodicInformInterval", "300", "600">> >>

IdentityAssigns(lv, hv, mv) ==
  Flatten([j \in 1..Len(ChainFields) |->
     (IF lv = "absent" THEN <<>>
      ELSE << <<"InternetGatewayDevice." \o ChainFields[j][1], VariantNode(lv, ChainFields[j][2])>> >>)
     \o (IF hv = "absent" THEN <<>>
         ELSE << <<"Device." \o ChainFields[j][1], VariantNode(hv, ChainFields[j][3])>> >>)])
  \o (IF mv = "absent" THEN <<>>
      ELSE << <<"Device.DeviceInfo.ModelName", VariantNode(mv, "Archer")>> >>)

IdentityDocs ==
  {Build(BaseDoc, IdentityAssigns(lv, hv, mv)) :
     lv \in ValueVariants, hv \in ValueVariants, mv \in {"absent", "str"}}

\* --- documents that vary the WAN address sources ---

\* What one IP interface holds: its status and its IPv4 address.
IfaceProfiles == {"absent", "up", "down", "enabled_noaddr", "true", "lower"}

IfaceAssigns(i, profile) ==
  LET b == "Device.IP.Interface." \o DigitStr[i]
      addr == <<b \o ".IPv4Address.1.IPAddress", Leaf(Str("100.64.0." \o DigitStr[i]))>>
  IN CASE profile = "absent" -> <<>>
       [] profile = "up" -> << <<b \o ".Status", Leaf(Str("Up"))>>, addr >>
       [] profile = "down" -> << <<b \o ".Status", Leaf(Str("Down"))>>, addr >>
       [] profile = "enabled_noaddr" ->
            << <<b \o ".Status", Leaf(Str("Enabled"))>>,
               <<b \o ".IPv4Address.1.IPAddress", Leaf(Str(""))>> >>
       [] profile = "true" -> << <<b \o ".Status", Leaf(Bool(TRUE))>>, addr >>
       [] profile = "lower" -> << <<b \o ".Status", Leaf(Str("up"))>>, addr >>

\* Which legacy external-address parameters hold what, in the order of
\* WanPaths ("-" absent, "e" empty, "a" an address).
LegacyWanCombos == {<<"-", "-", "-">>, <<"-", "-", "a">>, <<"e", "a", "a">>, <<"a", "a", "-">>}

LegacyWanAssigns(combo) ==
  Flatten([j \in 1..3 |->
     CASE combo[j] = "-" -> <<>>
       [] combo[j] = "e" -> << <<WanPaths[j], Leaf(Str(""))>> >>
       [] combo[j] = "a" -> << <<WanPaths[j], Leaf(Str("203.0.113." \o DigitStr[j]))>> >>])

WanDocs ==
  {Build(BaseDoc,
         Flatten([j \in 1..MaxIface |->
                    LET i == IF asc THEN j ELSE MaxIface + 1 - j
                    IN IfaceAssigns(i, ps[i])])
         \o LegacyWanAssigns(combo)
         \o (IF cr THEN << <<"Device.ManagementServer.ConnectionRequestURL",
                             Leaf(Str("http://User@CPE.example:30005/"))>> >>
             ELSE <<>>)) :
     ps \in [1..MaxIface -> IfaceProfiles], asc \in BOOLEAN,
     combo \in LegacyWanCombos, cr \in BOOLEAN}

\* --- documents that vary the tag list ---

TagLists ==
  { <<>>, <<Str("vip")>>, <<Str("sub:42")>>, <<Str("vip"), Str("sub:42"), Str("sub:7")>>,
    <<Num(7), None, Str("sub:42")>>, <<Str("sub:")>>, <<Str("sub:"), Str("sub:42")>>,
    <<Str("subx"), Str("SUB:1"), Str(" sub:1")>>, <<Str("sub:a:b")>>,
    <<List(<<Str("sub:1")>>), Str("vip")>> }

TagDocs ==
  {Build(BaseDoc, << <<"_tags", List(tags)>> >>) : tags \in TagLists}
  \cup {Build(BaseDoc, << <<"_tags", Str("sub:42")>> >>)}

\* --- documents that vary the time of the last contact ---

LastInforms ==
  {Str("2024-01-01T00:00:00Z"), Str("2024-01-01T00:00:00.000Z"), Str("2024-01-01T00:00:01.000Z"),
   Str("2023-12-31T23:59:00Z"), Str("2023-12-31T23:59:00.000Z"), Str("2023-12-31T23:58:59.999Z"),
   Str("2024-01-01T00:05:00.123Z"), Str(""), None, Num(1704067200)}

ContactDocs ==
  {Build(BaseDoc, << <<"_lastInform", li>> >>) : li \in LastInforms}

\* --- documents with unexpected shapes ---

\* A document with every subtree the resolvers read.
RichDoc ==
  Build(Build(Build(BaseDoc, LegacyAssigns(<<"hint24", "plain", "hint5">>, TRUE)),
              HierAssigns(<< <<"1", "2.4GHz">>, <<"2", "5GHz">> >>,
                          << <<"1", "Device.WiFi.Radio.1">>, <<"2", "Device.WiFi.Radio.2">> >>,
                          << <<1, 1, "kp">>, <<2, 2, "ps">> >>)),
        IdentityAssigns("str", "str", "str")
        \o << <<"_lastInform", Str("2024-01-01T00:00:00Z")>>,
              <<"_tags", List(<<Str("vip"), Num(7), Str("sub:42")>>)>>,
              <<"Device.IP.Interface.1.Status", Leaf(Str("Down"))>>,
              <<"Device.IP.Interface.1.IPv4Address.1.IPAddress", Leaf(Str("192.168.0.1"))>>,
              <<"Device.IP.Interface.2.Status", Leaf(Str("Up"))>>,
              <<"Device.IP.Interface.2.IPv4Address.1.IPAddress", Leaf(Str("100.64.0.9"))>>,
              <<"InternetGatewayDevice.WANDevice.1.WANConnectionDevice.1.WANPPPConnection.1.ExternalIPAddress",
                Leaf(Str("100.64.0.7"))>>,
              <<"InternetGatewayDevice.LANDevice.1.LANHostConfigManagement.IPInterface.1.IPInterfaceIPAddress",
                Leaf(Str("192.168.1.1"))>> >>)

\* Nodes of the wrong shape for the place they are put in.
BadNodes ==
  {Str("x"), Num(5), Bool(TRUE), None, List(<<Str("sub:1"), None>>), Dict(<<>>),
   Leaf(Num(1)), Leaf(List(<<Str("x")>>)), Leaf(Dict(<< <<"_value", Str("x")>> >>)), Leaf(None)}

BadPlaces ==
  {"Device", "Device.WiFi", "Device.WiFi.Radio", "Device.WiFi.Radio.1.OperatingFrequencyBand",
   "Device.WiFi.SSID.1.LowerLayers", "Device.WiFi.AccessPoint.1.SSIDReference",
   "Device.IP.Interface", "Device.IP.Interface.2.Status",
   "InternetGatewayDevice", WLAN, WLAN \o ".1.X_TP_Band", WLAN \o ".2.Standard", WLAN \o ".3.SSID",
   "InternetGatewayDevice.ManagementServer.ConnectionRequestURL",
   "InternetGatewayDevice.DeviceInfo.SerialNumber", "_tags"}

MalformedDocs ==
  {SetAt(RichDoc, split(place), bad) : place \in BadPlaces, bad \in BadNodes}
  \cup {Dict(<<>>), BaseDoc, RichDoc}

-----------------------------------------------------------------------------
(* Boundary to the controller                                              *)

\* raise HTTPException(status_code=..., detail=...)
HTTPException(status_code, detail) == [t |-> "http_error", v |-> <<status_code, detail>>]

\* How the controller answers GET /devices?query={"_id": device_id}.
FetchOutcomes == {"found", "empty", "status", "unreachable"}

\* fetch_device_doc: arr[0] when the controller answers 200 with a non-empty
\* array; stored is the document the controller holds for the device.
fetch_device_doc(stored, outcome) ==
  CASE outcome = "unreachable" -> HTTPException(500, "GET /devices failed")
    [] outcome = "status" -> HTTPException(503, "upstream body")
    [] outcome = "empty" -> HTTPException(404, "Device not found")
    [] outcome = "found" -> stored

device_detail(device_id, stored, outcome) ==
  Then(fetch_device_doc(stored, outcome), LAMBDA d : device_summary(device_id, d))

-----------------------------------------------------------------------------
(* Queries to the controller                                               *)

\* A response of the controller to GET /devices: the status code, the body
\* as text, the X-Total-Count header (None when absent) and the documents of
\* a JSON array body.
Response(status_code, text, total, documents) ==
  [status_code |-> status_code, text |-> text, total |-> total, json |-> documents]

\* int(s) for a str of decimal digits; int() strips blanks and takes a sign.
RECURSIVE digits_value(_, _)
digits_value(s, acc) ==
  IF s = "" THEN acc
  ELSE digits_value(Tail(s), acc * 10 + (Find("0123456789", Char(s, 1), 1) - 1))

py_int(s) ==
  LET body == strip(s)
      signed == body # "" /\ Char(body, 1) \in {"+", "-"}
      digits == IF signed THEN Tail(body) ELSE body
  IN IF ~isdigit(digits) THEN Raised("ValueError")
     ELSE Num((IF signed /\ Char(body, 1) = "-" THEN -1 ELSE 1) * digits_value(digits, 0))

\* A count that never trusts the header.
count_from_header_ignored(resp) == None

\* total = resp.headers.get("X-Total-Count") or resp.headers.get("x-total-count")
\* if total: try: return int(total) / except Exception: pass
\* None when the count has to be fetched.
count_from_header(resp) ==
  IF Truthy(resp.total) /\ ~IsRaised(py_int(resp.total.v)) THEN py_int(resp.total.v) ELSE None

\* The result limit of the second request of nbi_count.
CountLimit == 10000

\* nbi_count given the response to its first request and the response to the
\* second one, which is sent with limit=CountLimit when the first carries no
\* usable count.
\* The coroutine awaits the response to a further request.
Pending == [t |-> "pending", v |-> <<>>]

\* nbi_count up to the second request.
nbi_count_first(first) ==
  IF first.status_code # 200 THEN HTTPException(first.status_code, first.text)
  ELSE IF count_from_header(first) # None THEN count_from_header(first)
  ELSE Pending

\* nbi_count from the response to the second request on.
nbi_count_second(second) ==
  IF second.status_code # 200 THEN HTTPException(second.status_code, second.text)
  ELSE Num(Len(second.json))

nbi_count(first, second) ==
  IF nbi_count_first(first) = Pending THEN nbi_count_second(second)
  ELSE nbi_count_first(first)

\* nbi_get_devices given the response to its request.
nbi_get_devices(resp) ==
  IF resp.status_code # 200 THEN HTTPException(resp.status_code, resp.text)
  ELSE List(resp.json)

\* max(a, b) and min(a, b)
max(a, b) == IF a >= b THEN a ELSE b
min(a, b) == IF a <= b THEN a ELSE b

-----------------------------------------------------------------------------
(* Enriched device list                                                    *)

\* li >= online_cut for a truthy li: str against str, TypeError otherwise.
py_ge_str(li, cut) ==
  IF IsStr(li) THEN Bool(str_ge(li.v, cut)) ELSE Raised("TypeError")

\* is_online with a strict comparison.
is_online_strict(li, online_cut) ==
  IF ~Truthy(li) THEN Bool(FALSE)
  ELSE IF IsStr(li) THEN Bool(str_lt(online_cut, li.v)) ELSE Raised("TypeError")

\* is_online = bool(li and li >= online_cut)
is_online(li, online_cut) ==
  IF ~Truthy(li) THEN Bool(FALSE) ELSE py_ge_str(li, online_cut)

\* The em dash shown for a device without an address, written in ASCII.
NoAddress == "-"

\* One item of the list, for a document d of the page.
list_item(d, online_cut) ==
  LET li == DocGet(d, "_lastInform")
  IN Then(is_online(li, online_cut), LAMBDA online :
     Then(resolve_vendor_model_fw(d), LAMBDA vmfs :
     Then(Or(extract_value_from_path(d, "Device.WiFi.SSID.1.SSID"),
             extract_value_from_path(d, WLAN \o ".1.SSID")), LAMBDA ssid :
     Then(resolve_wan_ipv4(d), LAMBDA ip_wan :
     Then(resolve_lan_ipv4(d), LAMBDA ip_lan :
     Then(pick_subscriber_from_tags(d), LAMBDA sub :
       Dict(<< <<"device_id", DocGet(d, "_id")>>,
               <<"serial_number", Or(vmfs.v[4], DocGet(d, "_id"))>>,
               <<"vendor", vmfs.v[1]>>,
               <<"product_class", Or(vmfs.v[2], Str("UNKNOWN"))>>,
               <<"software_version", vmfs.v[3]>>,
               <<"last_inform", li>>,
               <<"online", online>>,
               <<"ssid", ssid>>,
               <<"ip", Or(ip_wan, Or(ip_lan, Str(NoAddress)))>>,
               <<"ip_wan", ip_wan>>,
               <<"ip_lan", ip_lan>>,
               <<"subscriber", sub>>,
               <<"tags", Or(DocGet(d, "_tags"), List(<<>>))>> >>)))))))

\* for d in docs: items.append({...})
RECURSIVE list_items(_, _)
list_items(documents, online_cut) ==
  IF documents = <<>> THEN List(<<>>)
  ELSE Then(list_item(Head(documents), online_cut), LAMBDA item :
       Then(list_items(Tail(documents), online_cut), LAMBDA rest :
         List(<<item>> \o rest.v)))

\* proj = ["_id", "_lastInform", "_tags", ...]
ListProjection ==
  <<"_id", "_lastInform", "_tags",
    "InternetGatewayDevice.DeviceInfo.ProductClass",
    "InternetGatewayDevice.DeviceInfo.SoftwareVersion",
    "Device.DeviceInfo.SoftwareVersion",
    WLAN \o ".1.SSID", "Device.WiFi.SSID.1.SSID",
    "InternetGatewayDevice.ManagementServer.ConnectionRequestURL",
    "Device.ManagementServer.ConnectionRequestURL",
    "Device.IP.Interface",
    "InternetGatewayDevice.WANDevice",
    "InternetGatewayDevice.LANDevice.1.LANHostConfigManagement">>

\* The node of a stored document at a path, Absent when the path leaves it.
RECURSIVE Lookup(_, _)
Lookup(node, parts) ==
  IF parts = <<>> THEN node
  ELSE IF IsDict(node) /\ HasKey(node, Head(parts))
       THEN Lookup(GetKey(node, Head(parts)), Tail(parts))
       ELSE Absent

\* The part of a stored document the controller returns for a projection.
RECURSIVE Project(_, _, _)
Project(stored, projection, acc) ==
  IF projection = <<>> THEN acc
  ELSE LET parts == split(Head(projection))
           node == Lookup(stored, parts)
       IN Project(stored, Tail(projection),
                  IF node = Absent THEN acc ELSE SetAt(acc, parts, node))

\* devices_list with no search, tag, product_class or only_online filter,
\* given the time of the request and the controller's responses to the two
\* requests of nbi_count and to the request of nbi_get_devices.
devices_list(now, page, page_size, online_within_sec, count1, count2, listing) ==
  LET online_cut == _iso(minus_seconds(now, online_within_sec))
      limit == max(1, min(500, page_size))
  IN Then(nbi_count(count1, count2), LAMBDA total :
     Then(nbi_get_devices(listing), LAMBDA documents :
     Then(list_items(documents.v, online_cut), LAMBDA items :
       Dict(<< <<"generated_at", Str(_iso(now))>>,
               <<"page", Num(page)>>,
               <<"page_size", Num(limit)>>,
               <<"total", total>>,
               <<"total_pages", Num((total.v + limit - 1) \div limit)>>,
               <<"items", items>>,
               <<"online_cut", Str(online_cut)>> >>))))

-----------------------------------------------------------------------------
(* The proxy serving requests about one device                             *)

Docs ==
  LegacyDocs \cup HierDocs \cup BothDocs \cup IdentityDocs \cup MalformedDocs
  \cup WanDocs \cup TagDocs

Bands == {"2.4GHz", "5GHz"}

\* Dotted paths read through the Path Accessor.
ProbePaths ==
  {"_id", "_tags", "_id.x", "", "Device.WiFi", "Device.WiFi.SSID.1.SSID",
   "InternetGatewayDevice.DeviceInfo.SerialNumber", WLAN \o ".3.SSID"}

DeviceId == "001122-EX141-SN1"

Idle == "none"

\* No stream or task is running.
NoFrame == [window_online_sec |-> 0, window_24h_sec |-> 0,
            now |-> None, t_online |-> "", t_24h |-> "",
            total_devices |-> None, online_now |-> None, active_24h |-> None]

\* What has been seen of a stream: a disconnection check passed since the
\* last emission, the number of emissions since the subscriber went away
\* (counted up to two), and a disconnection check found it gone.
NoHistory == [checked |-> FALSE, emitted_after |-> 0, observed |-> FALSE]

Parked ==
  /\ fleet = <<>>
  /\ clock = 0
  /\ churn = 0
  /\ connected = FALSE
  /\ pc = "idle"
  /\ frame = NoFrame
  /\ sent = <<>>
  /\ snapshot = None
  /\ history = NoHistory

coroutine_vars == <<fleet, clock, churn, connected, pc, frame, sent, snapshot, history>>

Init ==
  /\ doc \in Docs
  /\ op = Idle
  /\ arg = ""
  /\ ret = None
  /\ Parked

\* A call has computed its result from the device document.
Call(name, input, result) ==
  /\ op = Idle
  /\ op' = name
  /\ arg' = input
  /\ ret' = result
  /\ UNCHANGED <<doc, coroutine_vars>>

ExtractValue ==
  \E p \in ProbePaths :
    Call("extract_value_from_path", p, extract_value_from_path(doc, p))

MapTr181ByBand == Call("map_tr181_by_band", "", map_tr181_by_band(doc))

ResolveWifiParams ==
  \E band \in Bands :
    Call("resolve_wifi_params", band, resolve_wifi_params(doc, band))

ResolveWifiParamsTr098 ==
  \E band \in Bands :
    Call("resolve_wifi_params_tr098", band, resolve_wifi_params_tr098(doc, band))

ResolveWanIpv4 == Call("resolve_wan_ipv4", "", resolve_wan_ipv4(doc))

ResolveLanIpv4 == Call("resolve_lan_ipv4", "", resolve_lan_ipv4(doc))

ResolveVendorModelFw == Call("resolve_vendor_model_fw", "", resolve_vendor_model_fw(doc))

ResolveSsids == Call("resolve_ssids", "", resolve_ssids(doc))

PickSubscriberFromTags == Call("pick_subscriber_from_tags", "", pick_subscriber_from_tags(doc))

DeviceDetail ==
  \E outcome \in FetchOutcomes :
    Call("device_detail", outcome, device_detail(DeviceId, doc, outcome))

\* Times of a request to the list view.
Nows ==
  {datetime(2024, 1, 1, 0, 9, 0, 0), datetime(2024, 1, 1, 0, 10, 0, 0),
   datetime(2024, 1, 1, 0, 9, 0, 500000)}

\* How the controller answers the requests of the list view.
ListOutcomes == {"counted", "fetched", "bad_count", "count_status", "fetch_status", "list_status"}

ListInputs ==
  {[now |-> now, online_within_sec |-> w, page_size |-> 25, outcome |-> "counted"] :
     now \in Nows, w \in {600, 540}}
  \cup {[now |-> datetime(2024, 1, 1, 0, 10, 0, 0), online_within_sec |-> 600,
         page_size |-> size, outcome |-> outcome] :
          size \in {0, 1000}, outcome \in ListOutcomes \ {"counted"}}

\* The responses to the first and second request of nbi_count and to the
\* request of nbi_get_devices when the controller holds the document stored.
CountResponse(outcome) ==
  CASE outcome = "counted" -> Response(200, "[...]", Str("1"), <<>>)
    [] outcome = "bad_count" -> Response(200, "[...]", Str("many"), <<>>)
    [] outcome = "count_status" -> Response(503, "upstream body", None, <<>>)
    [] OTHER -> Response(200, "[...]", None, <<>>)

FetchResponse(stored, outcome) ==
  IF outcome = "fetch_status" THEN Response(502, "bad gateway", None, <<>>)
  ELSE Response(200, "[...]", None, <<Project(stored, <<"_id">>, Dict(<<>>))>>)

ListResponse(stored, outcome) ==
  IF outcome = "list_status" THEN Response(500, "upstream body", None, <<>>)
  ELSE Response(200, "[...]", None, <<Project(stored, ListProjection, Dict(<<>>))>>)

DevicesList ==
  \E input \in ListInputs :
    Call("devices_list", input,
         devices_list(input.now, 1, input.page_size, input.online_within_sec,
                      CountResponse(input.outcome), FetchResponse(doc, input.outcome),
                      ListResponse(doc, input.outcome)))

\* The response is serialized and the result discarded; nothing is cached.
Respond ==
  /\ op # Idle
  /\ op' = Idle
  /\ arg' = ""
  /\ ret' = None
  /\ UNCHANGED <<doc, coroutine_vars>>

Next ==
  \/ ExtractValue
  \/ MapTr181ByBand
  \/ ResolveWifiParams
  \/ ResolveWifiParamsTr098
  \/ ResolveWanIpv4
  \/ ResolveLanIpv4
  \/ ResolveVendorModelFw
  \/ ResolveSsids
  \/ PickSubscriberFromTags
  \/ DeviceDetail
  \/ Respond

Spec == Init /\ [][Next]_vars

\* The proxy serving the list view of a controller that holds one device.
ListDocs == ContactDocs \cup MalformedDocs \cup TagDocs

InitList ==
  /\ doc \in ListDocs
  /\ op = Idle
  /\ arg = ""
  /\ ret = None
  /\ Parked

NextList ==
  \/ DevicesList
  \/ Respond

SpecList == InitList /\ [][NextList]_vars

-----------------------------------------------------------------------------
(* Fleet metrics                                                           *)

\* offline_24h without the clamp at zero.
offline_24h_unclamped(total_devices, active_24h) == total_devices - active_24h

\* offline_24h = max(total_devices - active_24h, 0)
offline_24h(total_devices, active_24h) == max(total_devices - active_24h, 0)

\* The dict _compute_overview returns, from the time it read and the counts
\* its three queries gave.
overview(now, window_online_sec, window_24h_sec, total_devices, online_now, active_24h) ==
  Dict(<< <<"generated_at", Str(_iso(now))>>,
          <<"total_devices", total_devices>>,
          <<"online_now", online_now>>,
          <<"active_24h", active_24h>>,
          <<"offline_24h", Num(offline_24h(total_devices.v, active_24h.v))>>,
          <<"windows", Dict(<< <<"online_sec", Num(window_online_sec)>>,
                               <<"active_24h_sec", Num(window_24h_sec)>> >>)>> >>)

\* t_online = _iso(now - timedelta(seconds=window_online_sec)), and t_24h
t_online(now, window_online_sec) == _iso(minus_seconds(now, window_online_sec))
t_24h(now, window_24h_sec) == _iso(minus_seconds(now, window_24h_sec))

\* The queries of _compute_overview: {} and {"_lastInform": {"$gte": t}}
Everything == Dict(<<>>)
Since(t) == Dict(<< <<"_lastInform", Dict(<< <<"$gte", Str(t)>> >>)>> >>)

\* GET /devices with params query, projection and, on the second request of
\* nbi_count, limit.
CountRequest(query, limit) ==
  [method |-> "GET", url |-> "/devices", query |-> query, projection |-> "_id", limit |-> limit]

\* --- the controller ---

\* The controller's time after k ticks of five minutes.
ClockTime(k) == datetime(2024, 1, 1, 0, 5 * k, 0, 0)

\* fleet[k] devices were last heard of at ClockTime(k).
LastInformAt(k) == _iso(ClockTime(k))

RECURSIVE Matching(_, _, _)
Matching(devices, query, k) ==
  IF k < 0 THEN 0
  ELSE Matching(devices, query, k - 1)
       + (IF query = Everything
             \/ \E li \in {LastInformAt(k)}, t \in {GetKey(GetKey(query, "_lastInform"), "$gte").v} :
                  str_ge(li, t)
          THEN devices[k] ELSE 0)

\* The responses the controller may give to a count request: an error
\* status, or the matching documents, as many as the limit allows, with or
\* without a usable X-Total-Count header.
Answers(request) ==
  LET n == Matching(fleet, request.query, MaxTicks)
      returned == IF request.limit = None THEN n ELSE min(n, py_int(request.limit.v).v)
      documents == [i \in 1..returned |-> BaseDoc]
  IN {Response(503, "upstream body", None, <<>>)}
     \cup {Response(200, "[...]", header, documents) :
             header \in {Str(ToString(n)), Str("unknown"), None}}

\* --- GET /metrics/stream ---

API_KEY == "secret"

Running == pc \notin {"idle", "done"}

\* metrics_stream: the token is checked and the event generator started.
Subscribe ==
  /\ pc = "idle"
  /\ \E token \in {API_KEY, "guess"}, windows \in {<<60, 600>>, <<600, 60>>} :
       IF token # API_KEY
       THEN /\ pc' = "done"
            /\ ret' = HTTPException(403, "Forbidden")
            /\ UNCHANGED frame
       ELSE /\ pc' = "compute"
            /\ frame' = [NoFrame EXCEPT !.window_online_sec = windows[1],
                                        !.window_24h_sec = windows[2]]
            /\ UNCHANGED ret
  /\ UNCHANGED <<doc, op, arg, fleet, clock, churn, connected, sent, snapshot, history>>

\* _compute_overview: now = datetime.utcnow()
Compute ==
  /\ pc = "compute"
  /\ pc' = "total"
  /\ frame' = [frame EXCEPT !.now = ClockTime(clock),
                            !.t_online = t_online(ClockTime(clock), frame.window_online_sec),
                            !.t_24h = t_24h(ClockTime(clock), frame.window_24h_sec),
                            !.total_devices = None, !.online_now = None, !.active_24h = None]
  /\ sent' = <<>>
  /\ UNCHANGED <<doc, op, arg, ret, fleet, clock, churn, connected, snapshot, history>>

\* What the log of a count call keeps of a response: the status, the body of
\* an error, the X-Total-Count header and the number of documents returned.
Received(resp) ==
  [status_code |-> resp.status_code, text |-> resp.text, total |-> resp.total,
   returned |-> Len(resp.json)]

\* The first request of an nbi_count call and what follows from its response;
\* sent holds the exchanges of the call.
CountStep(at, query, field, next) ==
  /\ pc = at
  /\ \E first \in Answers(CountRequest(query, None)) :
       LET counted == nbi_count_first(first)
       IN /\ sent' = <<[request |-> CountRequest(query, None), response |-> Received(first)]>>
          /\ CASE counted = Pending ->
                    /\ pc' = at \o "_fetch"
                    /\ UNCHANGED <<frame, ret>>
               [] counted.t = "http_error" ->
                    /\ pc' = "done"
                    /\ ret' = counted
                    /\ UNCHANGED frame
               [] OTHER ->
                    /\ pc' = next
                    /\ frame' = [frame EXCEPT ![field] = counted]
                    /\ UNCHANGED ret
  /\ UNCHANGED <<doc, op, arg, fleet, clock, churn, connected, snapshot, history>>

\* The second request of an nbi_count call, sent with the limit.
FetchStep(at, query, field, next) ==
  /\ pc = at \o "_fetch"
  /\ \E second \in Answers(CountRequest(query, Str(ToString(CountLimit)))) :
       LET counted == nbi_count_second(second)
       IN /\ sent' = Append(sent, [request |-> CountRequest(query, Str(ToString(CountLimit))),
                                    response |-> Received(second)])
          /\ IF counted.t = "http_error"
             THEN /\ pc' = "done"
                  /\ ret' = counted
                  /\ UNCHANGED frame
             ELSE /\ pc' = next
                  /\ frame' = [frame EXCEPT ![field] = counted]
                  /\ UNCHANGED ret
  /\ UNCHANGED <<doc, op, arg, fleet, clock, churn, connected, snapshot, history>>

\* total_devices = await nbi_count({})
CountTotal == CountStep("total", Everything, "total_devices", "online")
FetchTotal == FetchStep("total", Everything, "total_devices", "online")

\* online_now = await nbi_count({"_lastInform": {"$gte": t_online}})
CountOnline == CountStep("online", Since(frame.t_online), "online_now", "active")
FetchOnline == FetchStep("online", Since(frame.t_online), "online_now", "active")

\* active_24h = await nbi_count({"_lastInform": {"$gte": t_24h}})
CountActive == CountStep("active", Since(frame.t_24h), "active_24h", "yield")
FetchActive == FetchStep("active", Since(frame.t_24h), "active_24h", "yield")

\* yield {"event": "overview", "data": json.dumps(await _compute_overview(...))}
Yield ==
  /\ pc = "yield"
  /\ pc' = "check"
  /\ snapshot' = overview(frame.now, frame.window_online_sec, frame.window_24h_sec,
                          frame.total_devices, frame.online_now, frame.active_24h)
  /\ history' = [history EXCEPT !.checked = FALSE,
                                !.emitted_after = IF connected THEN @ ELSE min(@ + 1, 2)]
  /\ sent' = <<>>
  /\ UNCHANGED <<doc, op, arg, ret, fleet, clock, churn, connected, frame>>

\* The check of a loop that goes on whether or not the subscriber is there.
CheckIgnored ==
  /\ pc = "check"
  /\ snapshot' = None
  /\ pc' = "sleep"
  /\ history' = [history EXCEPT !.checked = TRUE]
  /\ UNCHANGED <<doc, op, arg, ret, fleet, clock, churn, connected, frame, sent>>

\* if await request.is_disconnected(): break
\* The event yielded before is with the subscriber's connection by now.
CheckDisconnected ==
  /\ pc = "check"
  /\ snapshot' = None
  /\ IF connected
     THEN /\ pc' = "sleep"
          /\ history' = [history EXCEPT !.checked = TRUE]
     ELSE /\ pc' = "done"
          /\ history' = [history EXCEPT !.observed = TRUE]
  /\ UNCHANGED <<doc, op, arg, ret, fleet, clock, churn, connected, frame, sent>>

\* await asyncio.sleep(max(1, int(interval)))
Sleep ==
  /\ pc = "sleep"
  /\ pc' = "compute"
  /\ UNCHANGED <<doc, op, arg, ret, fleet, clock, churn, connected, frame, sent, snapshot, history>>

\* The steps of the stream's coroutine.
StreamStep ==
  \/ Compute
  \/ CountTotal \/ FetchTotal
  \/ CountOnline \/ FetchOnline
  \/ CountActive \/ FetchActive
  \/ Yield
  \/ CheckDisconnected
  \/ Sleep

\* --- what happens around the stream ---

\* The subscriber goes away.
Disconnect ==
  /\ Running
  /\ connected
  /\ connected' = FALSE
  /\ UNCHANGED <<doc, op, arg, ret, fleet, clock, churn, pc, frame, sent, snapshot, history>>

Tick ==
  /\ Running
  /\ clock < MaxTicks
  /\ clock' = clock + 1
  /\ UNCHANGED <<doc, op, arg, ret, fleet, churn, connected, pc, frame, sent, snapshot, history>>

Churn(devices) ==
  /\ Running
  /\ churn < MaxChurn
  /\ churn' = churn + 1
  /\ fleet' = devices
  /\ UNCHANGED <<doc, op, arg, ret, clock, connected, pc, frame, sent, snapshot, history>>

\* A device informs the controller.
CheckIn ==
  \E k \in 0..MaxTicks :
    /\ k # clock
    /\ fleet[k] > 0
    /\ Churn([fleet EXCEPT ![k] = @ - 1, ![clock] = @ + 1])

\* A new device registers with its first inform.
AddDevice == Churn([fleet EXCEPT ![clock] = @ + 1])

\* A device is deleted from the controller.
RemoveDevice ==
  \E k \in 0..MaxTicks :
    /\ fleet[k] > 0
    /\ Churn([fleet EXCEPT ![k] = @ - 1])

\* The controller holds one device, or as many as the count limit.
InitMetrics ==
  /\ doc = BaseDoc
  /\ op = Idle
  /\ arg = ""
  /\ ret = None
  /\ fleet \in {[k \in 0..MaxTicks |-> IF k = 0 THEN n ELSE 0] : n \in {1, CountLimit}}
  /\ clock = 0
  /\ churn = 0
  /\ connected = TRUE
  /\ pc = "idle"
  /\ frame = NoFrame
  /\ sent = <<>>
  /\ snapshot = None
  /\ history = NoHistory

NextMetrics ==
  \/ Subscribe
  \/ StreamStep
  \/ Disconnect
  \/ Tick
  \/ CheckIn
  \/ AddDevice
  \/ RemoveDevice

SpecMetrics == InitMetrics /\ [][NextMetrics]_vars

Positions ==
  {"idle", "compute", "total", "total_fetch", "online", "online_fetch",
   "active", "active_fetch", "yield", "check", "sleep", "done"}

\* The coroutine moves on: the steps of StreamStep are the steps that change
\* its position, and one of them is possible wherever it is running.
StreamAdvances == Running /\ pc' \in Positions \ {pc}

\* The event loop runs a coroutine that is ready, and every request to the
\* controller ends with a response or a timeout.
SpecMetricsFair == SpecMetrics /\ WF_pc(StreamAdvances)

-----------------------------------------------------------------------------
(* Operations that fetch the device document and submit tasks              *)

\* The request raised instead of giving a response.
NoResponse == Response(0, "ConnectError", None, <<>>)

\* GET /devices with params {"query": json.dumps({"_id": device_id})}
fetch_request(device_id) ==
  [method |-> "GET", url |-> "/devices",
   params |-> Dict(<< <<"query", Dict(<< <<"_id", Str(device_id)>> >>)>> >>)]

\* fetch_device_doc that hands an empty document on when none is found.
fetch_device_doc_or_empty(resp) ==
  IF resp = NoResponse THEN HTTPException(500, "GET /devices failed: " \o resp.text)
  ELSE IF resp.status_code # 200 THEN HTTPException(resp.status_code, resp.text)
  ELSE IF resp.json = <<>> THEN Dict(<<>>)
  ELSE resp.json[1]

\* fetch_device_doc from the response to its request on.
fetch_device_doc_from(resp) ==
  IF resp = NoResponse THEN HTTPException(500, "GET /devices failed: " \o resp.text)
  ELSE IF resp.status_code # 200 THEN HTTPException(resp.status_code, resp.text)
  ELSE IF resp.json = <<>> THEN HTTPException(404, "Device not found")
  ELSE resp.json[1]

\* str(n) for an int n
str(n) == ToString(n)

\* POST /devices/{device_id}/tasks with the params of send_task and the task
\* as JSON body; timeout is None or an int.
task_request(device_id, task_body, connection_request, timeout) ==
  [method |-> "POST", url |-> "/devices/" \o device_id \o "/tasks",
   params |-> Dict((IF connection_request THEN << <<"connection_request", Str("")>> >> ELSE <<>>)
                   \o (IF connection_request /\ Truthy(timeout) /\ timeout.v > 0
                       THEN << <<"timeout", Str(str(timeout.v))>> >> ELSE <<>>)),
   json |-> task_body]

\* send_task that reports every failure as its own error.
send_task_masked(device_id, resp) ==
  IF resp = NoResponse \/ resp.status_code \notin {200, 202}
  THEN HTTPException(500, "POST /devices/" \o device_id \o "/tasks failed: " \o resp.text)
  ELSE resp.json

\* send_task from the response to its request on.
send_task(device_id, resp) ==
  IF resp = NoResponse
  THEN HTTPException(500, "POST /devices/" \o device_id \o "/tasks failed: " \o resp.text)
  ELSE IF resp.status_code \notin {200, 202} THEN HTTPException(resp.status_code, resp.text)
  ELSE resp.json

\* band = "2.4GHz" if str(wlan_index) == "1" else "5GHz"
band_of(wlan_index) == IF str(wlan_index) = "1" THEN "2.4GHz" ELSE "5GHz"

\* The (ssid_path, pwd_path) of change_wifi and wifi_and_reboot: resolved from
\* the document unless both overrides are given.
wifi_paths(d, wlan_index, parameter_ssid, parameter_password) ==
  IF ~(Truthy(parameter_ssid) /\ Truthy(parameter_password))
  THEN resolve_wifi_params(d, band_of(wlan_index))
  ELSE Tuple(<<parameter_ssid.v, parameter_password.v>>)

\* --- the earlier variant, genieacs_backend_mvp.py ---

\* s in str(node): the text of a path, which holds no quote or escape, occurs
\* in the repr of the document when a key or a string of it contains it.
RECURSIVE in_str(_, _)
in_str(node, s) ==
  CASE IsStr(node) -> Contains(node.v, s)
    [] IsDict(node) ->
         \E i \in 1..Len(node.v) : Contains(node.v[i][1], s) \/ in_str(node.v[i][2], s)
    [] IsList(node) -> \E i \in 1..Len(node.v) : in_str(node.v[i], s)
    [] OTHER -> FALSE

\* resolve_wifi_params(doc, wlan_index) of the earlier variant:
\* {"parameter_ssid": ssid, "parameter_password": pwd}
mvp_resolve_wifi_params(d, wlan_index) ==
  LET base == WLAN \o "." \o str(wlan_index)
      ssid == base \o ".SSID"
      kp == base \o ".PreSharedKey.1.KeyPassphrase"
      ps == base \o ".PreSharedKey.1.PreSharedKey"
      has_kp == extract_value_from_path(d, kp) # None \/ in_str(d, kp)
      has_ps == extract_value_from_path(d, ps) # None \/ in_str(d, ps)
      pwd == IF has_kp THEN kp ELSE IF has_ps THEN ps ELSE kp
  IN Dict(<< <<"parameter_ssid", Str(ssid)>>, <<"parameter_password", Str(pwd)>> >>)

\* The (parameter_ssid, parameter_password) of the earlier change_wifi:
\* parameter_ssid = parameter_ssid or res["parameter_ssid"], and the same for
\* the password, unless both overrides are given.
mvp_wifi_paths(d, wlan_index, parameter_ssid, parameter_password) ==
  IF ~(Truthy(parameter_ssid) /\ Truthy(parameter_password))
  THEN LET res == mvp_resolve_wifi_params(d, wlan_index)
       IN Tuple(<<Or(parameter_ssid, GetKey(res, "parameter_ssid")).v,
                  Or(parameter_password, GetKey(res, "parameter_password")).v>>)
  ELSE Tuple(<<parameter_ssid.v, parameter_password.v>>)

\* {"name": "setParameterValues", "parameterValues": [[ssid_path, ssid,
\* "xsd:string"], [pwd_path, password, "xsd:string"]]}
wifi_task_body(paths, credentials) ==
  Dict(<< <<"name", Str("setParameterValues")>>,
          <<"parameterValues",
            List(<< List(<<Str(paths.v[1]), Str(credentials.ssid), Str("xsd:string")>>),
                    List(<<Str(paths.v[2]), Str(credentials.password), Str("xsd:string")>>) >>)>> >>)

reboot_task_body == Dict(<< <<"name", Str("reboot")>> >>)

\* One row of metrics_last_informs.
last_inform_row(d) ==
  Then(extract_value_from_path(d, "InternetGatewayDevice.DeviceInfo.ProductClass"), LAMBDA pcv :
  Then(Or(extract_value_from_path(d, "InternetGatewayDevice.DeviceInfo.SoftwareVersion"),
          extract_value_from_path(d, "Device.DeviceInfo.SoftwareVersion")), LAMBDA svv :
    Dict(<< <<"device_id", DocGet(d, "_id")>>,
            <<"last_inform", DocGet(d, "_lastInform")>>,
            <<"product_class", pcv>>,
            <<"software_version", svv>> >>)))

RECURSIVE last_inform_rows(_)
last_inform_rows(documents) ==
  IF documents = <<>> THEN List(<<>>)
  ELSE Then(last_inform_row(Head(documents)), LAMBDA row :
       Then(last_inform_rows(Tail(documents)), LAMBDA rest : List(<<row>> \o rest.v)))

\* metrics_last_informs from the response to its query on.
metrics_last_informs(resp) ==
  Then(nbi_get_devices(resp), LAMBDA documents : last_inform_rows(documents.v))

LastInformsProjection ==
  <<"_id", "_lastInform", "InternetGatewayDevice.DeviceInfo.ProductClass",
    "InternetGatewayDevice.DeviceInfo.SoftwareVersion", "Device.DeviceInfo.SoftwareVersion">>

\* GET /devices with the params of nbi_get_devices({}, proj, limit=n, skip=0,
\* sort={"_lastInform": -1}).
last_informs_request(n) ==
  [method |-> "GET", url |-> "/devices",
   params |-> Dict(<< <<"query", Dict(<<>>)>>, <<"limit", Str(str(n))>>, <<"skip", Str(str(0))>>,
                      <<"projection", List([i \in DOMAIN LastInformsProjection |->
                                              Str(LastInformsProjection[i])])>>,
                      <<"sort", Dict(<< <<"_lastInform", Num(-1)>> >>)>> >>)]

\* --- the controller ---

\* The responses to GET /devices?query={"_id": ...} for the stored document.
FetchAnswers(stored) ==
  {Response(200, "[...]", None, <<stored>>), Response(200, "[]", None, <<>>),
   Response(503, "upstream body", None, <<>>), Response(401, "Unauthorized", None, <<>>),
   NoResponse}

\* The responses to the submission of a task.
TaskAnswers(task_body) ==
  {Response(200, "{...}", None, DictSet(task_body, "_id", Str("task-1"))),
   Response(202, "{...}", None, DictSet(task_body, "_id", Str("task-1"))),
   Response(404, "No such device", None, <<>>),
   Response(503, "upstream body", None, <<>>),
   NoResponse}

\* The responses to the query of metrics_last_informs.
QueryAnswers(stored) ==
  {Response(200, "[...]", None, <<Project(stored, LastInformsProjection, Dict(<<>>))>>),
   Response(200, "[]", None, <<>>),
   Response(500, "query failed", None, <<>>)}

\* --- the proxy ---

\* read_ssid from the fetched document on.
read_ssid(device_id, wlan_index, d) ==
  LET ssid_181 == "Device.WiFi.SSID." \o str(wlan_index) \o ".SSID"
      ssid_098 == WLAN \o "." \o str(wlan_index) \o ".SSID"
  IN Then(Or(extract_value_from_path(d, ssid_181), extract_value_from_path(d, ssid_098)),
          LAMBDA value :
            Dict(<< <<"device", Str(device_id)>>,
                    <<"parameter", Str(IF Truthy(value) THEN ssid_181 ELSE ssid_098)>>,
                    <<"value", value>> >>))

\* read_value from the fetched document on.
read_value(device_id, name, d) ==
  Then(extract_value_from_path(d, name), LAMBDA value :
    Dict(<< <<"device", Str(device_id)>>, <<"parameter", Str(name)>>, <<"value", value>> >>))

ReadInputs ==
  {[name |-> "read_ssid", wlan_index |-> 1], [name |-> "read_ssid", wlan_index |-> 3],
   [name |-> "read_value", path |-> WLAN \o ".1.SSID"], [name |-> "read_value", path |-> "_id"],
   [name |-> "device_detail"]}

WifiInputs ==
  {[credentials |-> [ssid |-> "cafe", password |-> "s3cret"], wlan_index |-> wlan_index,
    parameter_ssid |-> overrides[1], parameter_password |-> overrides[2],
    connection_request |-> connection_request, cr_timeout |-> 10] :
     wlan_index \in {1, 2},
     overrides \in {<<None, None>>, <<Str("X.Ssid"), Str("X.Key")>>, <<Str("X.Ssid"), None>>,
                    <<None, Str("X.Key")>>},
     connection_request \in BOOLEAN}

TaskDocs ==
  {BaseDoc, RichDoc,
   Build(BaseDoc, LegacyAssigns(<<"plain", "plain", "plain">>, FALSE)),
   Build(BaseDoc, << <<"_lastInform", Str("2024-01-01T00:00:00.000Z")>>,
                     <<"Device.DeviceInfo.SoftwareVersion", Leaf(Str("2.0"))>> >>)}

\* No locals yet: the fetched document's task and the acknowledged Wi-Fi task.
TaskFrame == [task |-> None, wifi_task |-> None]

\* A request for one of the operations arrives.
Receive ==
  /\ op = Idle
  /\ pc = "idle"
  /\ \/ \E name \in {"change_wifi", "wifi_and_reboot"}, input \in WifiInputs :
          op' = name /\ arg' = input /\ pc' = "fetch"
     \/ op' = "metrics_last_informs" /\ arg' = [n |-> 50] /\ pc' = "query"
     \/ \E input \in ReadInputs :
          op' = input.name /\ arg' = input /\ pc' = "read"
  /\ sent' = <<>>
  /\ frame' = TaskFrame
  /\ UNCHANGED <<doc, ret, fleet, clock, churn, connected, snapshot, history>>

\* The operation ends with result.
Return(result) ==
  /\ pc' = "done"
  /\ ret' = result
  /\ UNCHANGED frame

\* doc = await fetch_device_doc(device_id), the resolution of the paths and
\* the task body built from them.
FetchDeviceDoc ==
  /\ pc = "fetch"
  /\ \E resp \in FetchAnswers(doc) :
       LET d == fetch_device_doc_from(resp)
           paths == wifi_paths(d, arg.wlan_index, arg.parameter_ssid, arg.parameter_password)
       IN /\ sent' = Append(sent, [request |-> fetch_request(DeviceId), response |-> resp])
          /\ IF d.t = "http_error" THEN Return(d)
             ELSE IF IsRaised(paths) THEN Return(paths)
             ELSE /\ pc' = "wifi_task"
                  /\ frame' = [frame EXCEPT !.task = wifi_task_body(paths, arg.credentials)]
                  /\ UNCHANGED ret
  /\ UNCHANGED <<doc, op, arg, fleet, clock, churn, connected, snapshot, history>>

\* doc = await fetch_device_doc(device_id) and the answer of read_ssid,
\* read_value or device_detail computed from it.
FetchAndRead ==
  /\ pc = "read"
  /\ \E resp \in FetchAnswers(doc) :
       LET d == fetch_device_doc_from(resp)
       IN /\ sent' = Append(sent, [request |-> fetch_request(DeviceId), response |-> resp])
          /\ Return(CASE d.t = "http_error" -> d
                      [] op = "read_ssid" -> read_ssid(DeviceId, arg.wlan_index, d)
                      [] op = "read_value" -> read_value(DeviceId, arg.path, d)
                      [] OTHER -> device_summary(DeviceId, d))
  /\ UNCHANGED <<doc, op, arg, fleet, clock, churn, connected, snapshot, history>>

\* The submission of the Wi-Fi task when wifi_and_reboot goes on to the reboot
\* whatever the controller answered.
SubmitWifiTaskUnchecked ==
  /\ pc = "wifi_task"
  /\ \E resp \in TaskAnswers(frame.task) :
       LET result == send_task(DeviceId, resp)
       IN /\ sent' = Append(sent, [request |-> task_request(DeviceId, frame.task,
                                                             arg.connection_request,
                                                             Num(arg.cr_timeout)),
                                   response |-> resp])
          /\ IF op = "change_wifi" THEN Return(result)
             ELSE /\ pc' = "reboot_task"
                  /\ frame' = [frame EXCEPT !.wifi_task = result]
                  /\ UNCHANGED ret
  /\ UNCHANGED <<doc, op, arg, fleet, clock, churn, connected, snapshot, history>>

\* await send_task(device_id, task_body, connection_request, timeout=cr_timeout)
SubmitWifiTask ==
  /\ pc = "wifi_task"
  /\ \E resp \in TaskAnswers(frame.task) :
       LET result == send_task(DeviceId, resp)
       IN /\ sent' = Append(sent, [request |-> task_request(DeviceId, frame.task,
                                                             arg.connection_request,
                                                             Num(arg.cr_timeout)),
                                   response |-> resp])
          /\ IF result.t = "http_error" \/ op = "change_wifi" THEN Return(result)
             ELSE /\ pc' = "reboot_task"
                  /\ frame' = [frame EXCEPT !.wifi_task = result]
                  /\ UNCHANGED ret
  /\ UNCHANGED <<doc, op, arg, fleet, clock, churn, connected, snapshot, history>>

\* reboot_task = await send_task(device_id, {"name": "reboot"},
\* connection_request=False), and the dict wifi_and_reboot returns.
SubmitRebootTask ==
  /\ pc = "reboot_task"
  /\ \E resp \in TaskAnswers(reboot_task_body) :
       LET result == send_task(DeviceId, resp)
       IN /\ sent' = Append(sent, [request |-> task_request(DeviceId, reboot_task_body, FALSE, None),
                                   response |-> resp])
          /\ IF result.t = "http_error" THEN Return(result)
             ELSE Return(Dict(<< <<"wifi_task", frame.wifi_task>>, <<"reboot_task", result>>,
                                 <<"note", Str("Wi-Fi aplicado e reboot agendado.")>> >>))
  /\ UNCHANGED <<doc, op, arg, fleet, clock, churn, connected, snapshot, history>>

\* docs = await nbi_get_devices(...) and the rows built from them.
QueryLastInforms ==
  /\ pc = "query"
  /\ \E resp \in QueryAnswers(doc) :
       /\ sent' = Append(sent, [request |-> last_informs_request(arg.n), response |-> resp])
       /\ Return(metrics_last_informs(resp))
  /\ UNCHANGED <<doc, op, arg, fleet, clock, churn, connected, snapshot, history>>

\* The result or the error is sent to the caller.
Answer ==
  /\ pc = "done"
  /\ pc' = "idle"
  /\ op' = Idle
  /\ arg' = ""
  /\ ret' = None
  /\ sent' = <<>>
  /\ frame' = TaskFrame
  /\ UNCHANGED <<doc, fleet, clock, churn, connected, snapshot, history>>

InitTasks ==
  /\ doc \in TaskDocs
  /\ op = Idle
  /\ arg = ""
  /\ ret = None
  /\ fleet = <<>>
  /\ clock = 0
  /\ churn = 0
  /\ connected = FALSE
  /\ pc = "idle"
  /\ frame = TaskFrame
  /\ sent = <<>>
  /\ snapshot = None
  /\ history = NoHistory

NextTasks ==
  \/ Receive
  \/ FetchDeviceDoc
  \/ FetchAndRead
  \/ SubmitWifiTask
  \/ SubmitRebootTask
  \/ QueryLastInforms
  \/ Answer

SpecTasks == InitTasks /\ [][NextTasks]_vars

-----------------------------------------------------------------------------
(* Properties                                                              *)

WifiOps == {"resolve_wifi_params", "resolve_wifi_params_tr098"}

\* The nodes a dotted path leads to: at most one, none when a segment is
\* absent or an intermediate node is not an object.
RECURSIVE ReachedNodes(_, _)
ReachedNodes(n, parts) ==
  IF parts = <<>> THEN {n}
  ELSE IF n.t # "dict" THEN {}
       ELSE UNION {ReachedNodes(n.v[i][2], Tail(parts)) :
                     i \in {j \in 1..Len(n.v) : n.v[j][1] = Head(parts)}}

ScalarKinds == {"str", "int", "bool"}

ValueKey(n) == {n.v[i][2] : i \in {j \in 1..Len(n.v) : n.v[j][1] = "_value"}}

\* C1: extract_value_from_path returns a string, number, boolean or null,
\* never a dict or list: null when the path breaks off, null for a final
\* object without '_value' or with a container '_value', the '_value' when
\* it is a scalar or null, and the final node itself when it is a scalar.
C1_ExtractReturnsScalarOrNull ==
  op = "extract_value_from_path" =>
    LET reached == ReachedNodes(doc, split(arg))
    IN /\ ret.t \in ScalarKinds \cup {"null"}
       /\ reached = {} => ret = None
       /\ \A n \in reached :
            /\ n.t = "dict" /\ ValueKey(n) = {} => ret = None
            /\ n.t = "dict" =>
                 \A val \in ValueKey(n) :
                   /\ val.t \in {"dict", "list"} => ret = None
                   /\ val.t \in ScalarKinds \cup {"null"} => ret = val
            /\ n.t \in ScalarKinds => ret = n

\* A final object whose '_value' is itself a container was read as null.
C1_Witness ==
  /\ op = "extract_value_from_path"
  /\ \E n \in ReachedNodes(doc, split(arg)) :
       n.t = "dict" /\ \E val \in ValueKey(n) : val.t \in {"dict", "list"}
  /\ ret = None

IsSubtree(d, key) == HasKey(d, key) /\ IsDict(GetKey(d, key)) /\ Len(GetKey(d, key).v) > 0

LegacyOnly(d) == IsSubtree(d, "InternetGatewayDevice") /\ ~HasKey(d, "Device")

HierarchicalOnly(d) == IsSubtree(d, "Device") /\ ~HasKey(d, "InternetGatewayDevice")

IsLegacyPath(path) == startswith(path, "InternetGatewayDevice.")

IsHierarchicalPath(path) == startswith(path, "Device.")

\* C2: for a document with only the legacy scheme populated,
\* resolve_wifi_params returns, for either band, an SSID path and a password
\* path under InternetGatewayDevice.* and never one under Device.*.
C2_LegacyOnlyNeverHierarchical ==
  (op = "resolve_wifi_params" /\ LegacyOnly(doc)) =>
    /\ ret.t = "tuple"
    /\ IsLegacyPath(ret.v[1]) /\ IsLegacyPath(ret.v[2])
    /\ ~IsHierarchicalPath(ret.v[1]) /\ ~IsHierarchicalPath(ret.v[2])

C2_Witness ==
  /\ op = "resolve_wifi_params" /\ arg = "5GHz"
  /\ LegacyOnly(doc)
  /\ ret.t = "tuple" /\ IsLegacyPath(ret.v[1])

\* The legacy default pair of a band.
LegacyDefault(band) ==
  LET base == WLAN \o (IF band = "2.4GHz" THEN ".1" ELSE ".2")
  IN Tuple(<<base \o ".SSID", base \o ".PreSharedKey.1.KeyPassphrase">>)

\* C3 as stated: for a document with only the hierarchical scheme populated,
\* resolve_wifi_params returns, for either band, paths under Device.WiFi.*
\* and never a legacy path.
C3_HierarchicalOnlyNeverLegacy ==
  (op = "resolve_wifi_params" /\ HierarchicalOnly(doc)) =>
    /\ ret.t = "tuple"
    /\ startswith(ret.v[1], "Device.WiFi.") /\ startswith(ret.v[2], "Device.WiFi.")
    /\ ~IsLegacyPath(ret.v[1]) /\ ~IsLegacyPath(ret.v[2])

\* C3 amended: for a document with only the hierarchical scheme populated,
\* resolve_wifi_params returns paths under Device.WiFi.* and no legacy path
\* when the hierarchical band map contains the requested band; when the map
\* lacks the band it returns the legacy default paths.
C3_HierarchicalOnlyMappedBand ==
  (op = "resolve_wifi_params" /\ HierarchicalOnly(doc)) =>
    IF HasKey(map_tr181_by_band(doc), arg)
    THEN /\ ret.t = "tuple"
         /\ startswith(ret.v[1], "Device.WiFi.") /\ startswith(ret.v[2], "Device.WiFi.")
         /\ ~IsLegacyPath(ret.v[1]) /\ ~IsLegacyPath(ret.v[2])
    ELSE ret = LegacyDefault(arg)

C3_Witness ==
  /\ op = "resolve_wifi_params"
  /\ HierarchicalOnly(doc)
  /\ HasKey(map_tr181_by_band(doc), arg)
  /\ ret.t = "tuple" /\ startswith(ret.v[1], "Device.WiFi.")

\* C4: whenever the hierarchical band map holds (ssidId, apId, radioId) for
\* the requested band, resolve_wifi_params returns Device.WiFi.SSID.<ssidId>
\* .SSID and a password path under Device.WiFi.AccessPoint.<apId>.Security.,
\* whatever legacy content the document also holds.
C4_MappedBandUsesHierarchicalPaths ==
  (op = "resolve_wifi_params" /\ HasKey(map_tr181_by_band(doc), arg)) =>
    LET entry == GetKey(map_tr181_by_band(doc), arg)
    IN /\ ret.t = "tuple"
       /\ ret.v[1] = "Device.WiFi.SSID." \o entry[1] \o ".SSID"
       /\ startswith(ret.v[2], "Device.WiFi.AccessPoint." \o entry[2] \o ".Security.")

\* Access point 4 references SSID 2 on the 5 GHz radio, in a document that
\* also holds WLAN-configuration instances.
C4_Witness ==
  /\ op = "resolve_wifi_params" /\ arg = "5GHz"
  /\ IsSubtree(doc, "InternetGatewayDevice")
  /\ HasKey(map_tr181_by_band(doc), "5GHz")
  /\ GetKey(map_tr181_by_band(doc), "5GHz")[1] = "2"
  /\ GetKey(map_tr181_by_band(doc), "5GHz")[2] = "4"
  /\ ret.t = "tuple"
  /\ ret.v[1] = "Device.WiFi.SSID.2.SSID"
  /\ startswith(ret.v[2], "Device.WiFi.AccessPoint.4.Security.")

\* The WLAN-configuration instances of a document in enumeration order.
WlanInstances(d) ==
  LET reached == ReachedNodes(d, split(WLAN))
  IN IF reached = {} THEN <<>>
     ELSE LET wl == CHOOSE n \in reached : TRUE
          IN IF wl.t = "dict" THEN SelectSeq(Keys(wl), isdigit) ELSE <<>>

\* Positions in the enumeration whose instance matches by band hint, by
\* radio standard.
HintPositions(d, band) ==
  {j \in 1..Len(WlanInstances(d)) : band_hint_matches(d, WlanInstances(d)[j], band).v}

StandardPositions(d, band) ==
  {j \in 1..Len(WlanInstances(d)) : standard_matches(d, WlanInstances(d)[j], band).v}

Min(S) == CHOOSE i \in S : \A j \in S : i <= j

SsidPathOf(instance) == WLAN \o "." \o instance \o ".SSID"

\* C5: in legacy resolution, when no instance matches by band hint or by
\* radio standard, the selected instance is "1" for 2.4GHz; for 5GHz it is
\* "3" when WLANConfiguration.3.SSID holds a value and "2" otherwise; the
\* SSID path ends in .<instance>.SSID.
C5_LegacyDefaultInstance ==
  ( /\ op = "resolve_wifi_params_tr098"
    /\ HintPositions(doc, arg) = {}
    /\ StandardPositions(doc, arg) = {} ) =>
    /\ ret.t = "tuple"
    /\ arg = "2.4GHz" => ret.v[1] = SsidPathOf("1")
    /\ arg = "5GHz" =>
         ret.v[1] = IF extract_value_from_path(doc, SsidPathOf("3")) # None
                    THEN SsidPathOf("3") ELSE SsidPathOf("2")

\* Instances 1 and 3 without hints, instance 3 with an SSID: 5 GHz is 3.
C5_Witness ==
  /\ op = "resolve_wifi_params_tr098" /\ arg = "5GHz"
  /\ Len(WlanInstances(doc)) >= 2
  /\ HintPositions(doc, arg) = {} /\ StandardPositions(doc, arg) = {}
  /\ extract_value_from_path(doc, SsidPathOf("3")) # None
  /\ ret.t = "tuple" /\ ret.v[1] = SsidPathOf("3")

\* C6: legacy resolution keeps the priority order: the first instance (in
\* enumeration order) whose band hint matches wins over any instance that
\* matches only by radio standard, even an earlier one; without a band-hint
\* match the first instance whose radio standard matches wins over the
\* default index.
C6_LegacyPriorityOrder ==
  op = "resolve_wifi_params_tr098" =>
    LET inst == WlanInstances(doc)
        hints == HintPositions(doc, arg)
        stds == StandardPositions(doc, arg)
    IN /\ ret.t = "tuple"
       /\ hints # {} => ret.v[1] = SsidPathOf(inst[Min(hints)])
       /\ (hints = {} /\ stds # {}) => ret.v[1] = SsidPathOf(inst[Min(stds)])

\* A band-hint match that comes after a radio-standard match, and a second
\* band-hint match after it.
C6_Witness ==
  /\ op = "resolve_wifi_params_tr098"
  /\ \E j \in StandardPositions(doc, arg) : \E k \in HintPositions(doc, arg) :
       /\ j < k
       /\ k = Min(HintPositions(doc, arg))
       /\ ret.t = "tuple" /\ ret.v[1] = SsidPathOf(WlanInstances(doc)[k])
  /\ Cardinality(HintPositions(doc, arg)) >= 2

HoldsValue(d, path) == extract_value_from_path(d, path) # None

\* The two candidate password paths that go with a resolved SSID path.
KeyPassphrasePath(d, band, ssid_path) ==
  IF IsLegacyPath(ssid_path)
  THEN SubSeq(ssid_path, 1, Len(ssid_path) - Len(".SSID")) \o ".PreSharedKey.1.KeyPassphrase"
  ELSE "Device.WiFi.AccessPoint." \o GetKey(map_tr181_by_band(d), band)[2] \o ".Security.KeyPassphrase"

PreSharedKeyPath(d, band, ssid_path) ==
  IF IsLegacyPath(ssid_path)
  THEN SubSeq(ssid_path, 1, Len(ssid_path) - Len(".SSID")) \o ".PreSharedKey.1.PreSharedKey"
  ELSE "Device.WiFi.AccessPoint." \o GetKey(map_tr181_by_band(d), band)[2] \o ".Security.PreSharedKey"

\* C7: in both schemes the password path is the KeyPassphrase path whenever
\* that path holds a non-null value or the PreSharedKey path holds none; it
\* is the PreSharedKey path exactly when KeyPassphrase has no value and
\* PreSharedKey has one.
C7_PasswordPathPreference ==
  op = "resolve_wifi_params" =>
    /\ ret.t = "tuple"
    /\ LET kp == KeyPassphrasePath(doc, arg, ret.v[1])
           ps == PreSharedKeyPath(doc, arg, ret.v[1])
       IN /\ ret.v[2] \in {kp, ps}
          /\ (HoldsValue(doc, kp) \/ ~HoldsValue(doc, ps)) => ret.v[2] = kp
          /\ ret.v[2] = ps <=> (~HoldsValue(doc, kp) /\ HoldsValue(doc, ps))

\* Both password parameters of the resolved access point are empty.
C7_Witness ==
  /\ op = "resolve_wifi_params"
  /\ ret.t = "tuple"
  /\ IsHierarchicalPath(ret.v[1])
  /\ ~HoldsValue(doc, KeyPassphrasePath(doc, arg, ret.v[1]))
  /\ ~HoldsValue(doc, PreSharedKeyPath(doc, arg, ret.v[1]))
  /\ ret.v[2] = KeyPassphrasePath(doc, arg, ret.v[1])

\* A pair of two non-empty parameter paths.
IsPathPair(x) ==
  /\ x.t = "tuple" /\ Len(x.v) = 2
  /\ \A i \in 1..2 : x.v[i] \in STRING /\ x.v[i] # ""

\* A tuple of n values, each a scalar or null.
IsTupleOfValues(x, n) ==
  /\ x.t = "tuple" /\ Len(x.v) = n
  /\ \A i \in 1..n : IsScalarOrNone(x.v[i])

NoMatch(d, band) == HintPositions(d, band) = {} /\ StandardPositions(d, band) = {}

\* C8: for every document shape and either band the resolution-layer
\* functions return without raising: resolve_wifi_params yields a concrete
\* (SSID path, password path) pair, the default one when the band is not
\* mapped and no heuristic matches, and the identity/network resolvers yield
\* a value or null.
C8_ResolutionNeverRaises ==
  /\ op \in WifiOps =>
       /\ ~IsRaised(ret)
       /\ IsPathPair(ret)
  /\ (op = "resolve_wifi_params" /\ ~HasKey(map_tr181_by_band(doc), arg) /\ NoMatch(doc, arg)) =>
       ret.v[1] \in {SsidPathOf("1"), SsidPathOf("2"), SsidPathOf("3")}
  /\ op = "map_tr181_by_band" => ~IsRaised(ret) /\ ret.t = "dict"
  /\ op \in {"resolve_wan_ipv4", "resolve_lan_ipv4", "pick_subscriber_from_tags"} =>
       ~IsRaised(ret) /\ ret.t \in {"str", "null"}
  /\ op = "resolve_vendor_model_fw" => ~IsRaised(ret) /\ IsTupleOfValues(ret, 4)
  /\ op = "resolve_ssids" => ~IsRaised(ret) /\ IsTupleOfValues(ret, 2)

\* The Device node is present and is a scalar instead of an object: the band
\* map is empty and a legacy pair is returned.
C8_Witness ==
  /\ op = "resolve_wifi_params"
  /\ HasKey(doc, "Device") /\ GetKey(doc, "Device").t \in ScalarKinds
  /\ map_tr181_by_band(doc) = Dict(<<>>)
  /\ IsPathPair(ret) /\ IsLegacyPath(ret.v[1])

InfoFields == <<"Manufacturer", "ProductClass", "SoftwareVersion", "SerialNumber">>

LegacyInfo(d, f) ==
  extract_value_from_path(d, "InternetGatewayDevice.DeviceInfo." \o InfoFields[f])

HierarchicalInfo(d, f) ==
  extract_value_from_path(d, "Device.DeviceInfo." \o InfoFields[f])

\* C9 as stated: for each of vendor, model, firmware and serial number, when
\* both the hierarchical and the legacy path hold a value,
\* resolve_vendor_model_fw returns the hierarchical value; the legacy value
\* is returned only when the hierarchical path yields none.
C9_HierarchicalPreferred ==
  op = "resolve_vendor_model_fw" =>
    \A f \in 1..4 :
      LET l == LegacyInfo(doc, f)
          h == HierarchicalInfo(doc, f)
      IN /\ (l # None /\ h # None) => ret.v[f] = h
         /\ (l # None /\ ret.v[f] = l /\ l # h) => h = None

\* C9 amended: for each of vendor, model, firmware and serial number, when
\* the legacy path holds a non-empty, non-zero value resolve_vendor_model_fw
\* returns the legacy value, whatever the hierarchical path holds; the
\* hierarchical value is returned only when the legacy path yields null or
\* an empty, zero or false value; model additionally falls back from the
\* hierarchical product class to the model name.
C9_LegacyPreferred ==
  op = "resolve_vendor_model_fw" =>
    /\ \A f \in 1..4 : Truthy(LegacyInfo(doc, f)) => ret.v[f] = LegacyInfo(doc, f)
    /\ \A f \in {1, 3, 4} : ~Truthy(LegacyInfo(doc, f)) => ret.v[f] = HierarchicalInfo(doc, f)
    /\ ~Truthy(LegacyInfo(doc, 2)) =>
         ret.v[2] = IF Truthy(HierarchicalInfo(doc, 2)) THEN HierarchicalInfo(doc, 2)
                    ELSE extract_value_from_path(doc, "Device.DeviceInfo.ModelName")

\* Both schemes hold a vendor, and the two differ.
C9_Witness ==
  /\ op = "resolve_vendor_model_fw"
  /\ Truthy(LegacyInfo(doc, 1)) /\ Truthy(HierarchicalInfo(doc, 1))
  /\ LegacyInfo(doc, 1) # HierarchicalInfo(doc, 1)
  /\ ret.v[1] = LegacyInfo(doc, 1)

IdentityChains == <<VendorPaths, ModelPaths, FwPaths, SerialPaths>>

\* The value at the first candidate path that holds a non-null scalar.
RECURSIVE FirstNonNull(_, _)
FirstNonNull(d, paths) ==
  IF paths = <<>> THEN None
  ELSE IF extract_value_from_path(d, Head(paths)) # None
       THEN extract_value_from_path(d, Head(paths))
       ELSE FirstNonNull(d, Tail(paths))

\* C10: each identity/network fallback chain returns the value at the first
\* candidate path, in chain order, whose value is a non-null scalar, whatever
\* that scalar is; a later candidate is consulted only when every earlier
\* one yields null.
C10_FirstNonNullScalar ==
  /\ op = "resolve_vendor_model_fw" =>
       \A f \in 1..4 : ret.v[f] = FirstNonNull(doc, IdentityChains[f])
  /\ (op = "device_detail" /\ arg = "found") =>
       LET mgmt == GetKey(ret, "mgmt")
       IN /\ GetKey(mgmt, "conn_req_url") = FirstNonNull(doc, CrUrlPaths)
          /\ GetKey(mgmt, "periodic_inform_interval") = FirstNonNull(doc, InformPaths)

\* The numbered instances below a dotted path, in enumeration order.
InstancesAt(d, path) ==
  LET reached == ReachedNodes(d, split(path))
  IN IF reached = {} THEN <<>>
     ELSE LET node == CHOOSE n \in reached : TRUE
          IN IF node.t = "dict" THEN SelectSeq(Keys(node), isdigit) ELSE <<>>

IfaceStatus(d, i) == extract_value_from_path(d, "Device.IP.Interface." \o i \o ".Status")

IfaceAddress(d, i) ==
  extract_value_from_path(d, "Device.IP.Interface." \o i \o ".IPv4Address.1.IPAddress")

\* Up/Enabled as the resolver reads a status (a boolean true counts, and so does 1).
IsUpStatus(en) == en \in {Str("Up"), Str("UP"), Str("Enabled"), Bool(TRUE), Num(1)}

\* Positions of the IP-interface entries that are up and hold an address.
UpPositions(d) ==
  LET inst == InstancesAt(d, "Device.IP.Interface")
  IN {j \in 1..Len(inst) :
        IsUpStatus(IfaceStatus(d, inst[j])) /\ NonEmptyStr(IfaceAddress(d, inst[j]))}

LegacyExternalAddresses(d) ==
  LET w == "InternetGatewayDevice.WANDevice.1.WANConnectionDevice."
      paths == <<w \o "1.WANIPConnection.1.ExternalIPAddress",
                 w \o "2.WANIPConnection.1.ExternalIPAddress",
                 w \o "1.WANPPPConnection.1.ExternalIPAddress">>
  IN SelectSeq([j \in 1..3 |-> extract_value_from_path(d, paths[j])], NonEmptyStr)

\* The management connection-request URL as device_detail reports it.
ConnectionRequestURL(d) ==
  LET l == extract_value_from_path(d, "InternetGatewayDevice.ManagementServer.ConnectionRequestURL")
  IN IF Truthy(l) THEN l
     ELSE extract_value_from_path(d, "Device.ManagementServer.ConnectionRequestURL")

\* C11: resolve_wan_ipv4 returns the address of the first hierarchical
\* IP-interface entry, in enumeration order, whose status is Up/Enabled and
\* whose address is a non-empty string; only when there is none, the first
\* non-empty legacy external address in the order WANConnectionDevice.1
\* WANIPConnection, WANConnectionDevice.2 WANIPConnection,
\* WANConnectionDevice.1 WANPPPConnection; only when there is none, the
\* hostname parsed from the connection-request URL; otherwise null.
C11_WanIpv4Priority ==
  op = "resolve_wan_ipv4" =>
    LET inst == InstancesAt(doc, "Device.IP.Interface")
        up == UpPositions(doc)
        legacy == LegacyExternalAddresses(doc)
        cr == ConnectionRequestURL(doc)
    IN IF up # {} THEN ret = IfaceAddress(doc, inst[Min(up)])
       ELSE IF legacy # <<>> THEN ret = legacy[1]
       ELSE IF IsStr(cr) THEN ret = url_hostname(cr.v)
       ELSE ret = None

\* The first interface entry is down and holds an address, a later one is up;
\* legacy external addresses are present as well.
C11_Witness ==
  /\ op = "resolve_wan_ipv4"
  /\ UpPositions(doc) # {} /\ Min(UpPositions(doc)) > 1
  /\ NonEmptyStr(IfaceAddress(doc, InstancesAt(doc, "Device.IP.Interface")[1]))
  /\ LegacyExternalAddresses(doc) # <<>>
  /\ ret = IfaceAddress(doc, InstancesAt(doc, "Device.IP.Interface")[Min(UpPositions(doc))])

\* The SSID value of the SSID instance the band map gives for a band, null
\* for a band that is not in the map.
MappedSsid(d, band) ==
  IF HasKey(map_tr181_by_band(d), band)
  THEN extract_value_from_path(d, "Device.WiFi.SSID." \o GetKey(map_tr181_by_band(d), band)[1] \o ".SSID")
  ELSE None

LegacySsid(d, instance) == extract_value_from_path(d, SsidPathOf(instance))

\* C12: resolve_ssids decides each band independently: for a band in the
\* hierarchical band map it returns the SSID value of the mapped instance;
\* for a band absent from the map, or whose mapped SSID yields no value, it
\* returns the legacy value at WLANConfiguration.1.SSID for 2.4GHz and for
\* 5GHz the value at WLANConfiguration.3.SSID, else the one at
\* WLANConfiguration.2.SSID; null when none holds a value.
C12_SsidsPerBand ==
  op = "resolve_ssids" =>
    /\ ret.v[1] = IF MappedSsid(doc, "2.4GHz") # None THEN MappedSsid(doc, "2.4GHz")
                  ELSE LegacySsid(doc, "1")
    /\ ret.v[2] = IF MappedSsid(doc, "5GHz") # None THEN MappedSsid(doc, "5GHz")
                  ELSE IF LegacySsid(doc, "3") # None THEN LegacySsid(doc, "3")
                  ELSE LegacySsid(doc, "2")

\* The tag list of a document, empty when the document has none.
TagList(d) ==
  IF HasKey(d, "_tags") /\ GetKey(d, "_tags").t = "list" THEN GetKey(d, "_tags").v ELSE <<>>

\* Positions of the string tags that start with the subscriber prefix.
PrefixedPositions(d) ==
  {j \in 1..Len(TagList(d)) :
     TagList(d)[j].t = "str" /\ startswith(TagList(d)[j].v, "sub:")}

\* The text after the prefix.
Suffix(tag) == SubSeq(tag, Len("sub:") + 1, Len(tag))

FirstPrefixedTag(d) == TagList(d)[Min(PrefixedPositions(d))].v

\* C13 as stated: pick_subscriber_from_tags returns the suffix of the first
\* tag of the tag list that starts with "sub:", ignoring non-string tags,
\* and returns null if and only if no tag starts with that prefix or the
\* document has no tag list.
C13_SubscriberNullIffNoPrefix ==
  op = "pick_subscriber_from_tags" =>
    /\ PrefixedPositions(doc) # {} => ret = Str(Suffix(FirstPrefixedTag(doc)))
    /\ ret = None <=> PrefixedPositions(doc) = {}

\* C13 amended: pick_subscriber_from_tags returns the suffix of the first
\* string tag that starts with "sub:" when that suffix is not empty, and
\* returns null if and only if no tag starts with the prefix, the document
\* has no tag list, or the first such tag has an empty suffix (later tags
\* are not examined).
C13_SubscriberFirstPrefixedTag ==
  op = "pick_subscriber_from_tags" =>
    /\ (PrefixedPositions(doc) # {} /\ Suffix(FirstPrefixedTag(doc)) # "") =>
         ret = Str(Suffix(FirstPrefixedTag(doc)))
    /\ ret = None <=>
         \/ PrefixedPositions(doc) = {}
         \/ Suffix(FirstPrefixedTag(doc)) = ""

\* The first prefixed tag has an empty suffix and a later tag names a subscriber.
C13_Witness ==
  /\ op = "pick_subscriber_from_tags"
  /\ Cardinality(PrefixedPositions(doc)) >= 2
  /\ Suffix(FirstPrefixedTag(doc)) = ""
  /\ ret = None

\* The list view answered with a page holding one item.
ListedOne ==
  /\ op = "devices_list"
  /\ IsDict(ret)
  /\ Len(GetKey(ret, "items").v) = 1

ListedItem == GetKey(ret, "items").v[1]

\* The scenario's request: 600-second window at 2024-01-01T00:09:00Z, for a
\* document last heard of at 2024-01-01T00:00:00Z.
ScenarioRequest ==
  /\ ListedOne
  /\ arg.now = datetime(2024, 1, 1, 0, 9, 0, 0)
  /\ arg.online_within_sec = 600
  /\ DocGet(doc, "_lastInform") = Str("2024-01-01T00:00:00Z")

\* C15 as stated: in the scenario the cutoff is "2024-01-01T00:00:00Z" and the
\* device is listed online.
C15_CutoffAtMidnight ==
  ScenarioRequest =>
    /\ GetKey(ret, "online_cut") = Str("2024-01-01T00:00:00Z")
    /\ GetKey(ListedItem, "online") = Bool(TRUE)

\* C15: in the scenario the cutoff is "2023-12-31T23:59:00Z", 600 seconds
\* before the reference time, and the device is listed online; in every
\* listing a last contact equal to the cutoff is online, a missing one is
\* offline, and a text one is online exactly when it is not below the cutoff.
C15_CutoffAndInclusiveBoundary ==
  /\ ScenarioRequest =>
       /\ GetKey(ret, "online_cut") = Str("2023-12-31T23:59:00Z")
       /\ GetKey(ListedItem, "online") = Bool(TRUE)
  /\ ListedOne =>
       LET li == DocGet(doc, "_lastInform")
           cut == GetKey(ret, "online_cut")
           online == GetKey(ListedItem, "online")
       IN /\ arg.now = datetime(2024, 1, 1, 0, 10, 0, 0) /\ arg.online_within_sec = 600
               => cut = Str("2024-01-01T00:00:00Z")
          /\ li = cut => online = Bool(TRUE)
          /\ li = None => online = Bool(FALSE)
          /\ IsStr(li) /\ li.v # "" => online = Bool(~str_lt(li.v, cut.v))

\* The boundary case: the last contact equals the cutoff and the device is
\* listed online.
C15_Witness ==
  /\ ListedOne
  /\ arg.now = datetime(2024, 1, 1, 0, 10, 0, 0)
  /\ DocGet(doc, "_lastInform") = Str("2024-01-01T00:00:00Z")
  /\ GetKey(ret, "online_cut") = Str("2024-01-01T00:00:00Z")
  /\ GetKey(ListedItem, "online") = Bool(TRUE)

\* A snapshot has just been emitted; its counts.
Emitted == pc = "check" /\ snapshot # None

SnapshotCount(field) == GetKey(snapshot, field).v

\* C16: in every snapshot offline_24h is total_devices - active_24h when that
\* is positive and zero otherwise, so it is never negative.
C16_OfflineIsClampedDifference ==
  Emitted =>
    LET difference == SnapshotCount("total_devices") - SnapshotCount("active_24h")
    IN /\ SnapshotCount("offline_24h") = (IF difference > 0 THEN difference ELSE 0)
       /\ SnapshotCount("offline_24h") >= 0

\* A snapshot whose active count exceeds its total: the clamp gives zero.
C16_Witness ==
  /\ Emitted
  /\ SnapshotCount("active_24h") > SnapshotCount("total_devices")
  /\ SnapshotCount("offline_24h") = 0

\* C17 as stated: in every snapshot taken with the online window inside the
\* active window, online_now <= active_24h <= total_devices.
C17_CountsOrdered ==
  Emitted /\ frame.window_online_sec <= frame.window_24h_sec =>
    /\ SnapshotCount("online_now") <= SnapshotCount("active_24h")
    /\ SnapshotCount("active_24h") <= SnapshotCount("total_devices")

\* The positions of a fetch-compute-emit cycle.
InCycle ==
  pc \in {"compute", "total", "total_fetch", "online", "online_fetch",
          "active", "active_fetch", "yield"}

\* C18 as stated: a cycle runs only after a disconnection check has passed
\* since the previous emission or the start of the subscription.
C18_CheckBeforeEveryCycle == InCycle => history.checked

\* C19: the stream ends only when a check finds the subscriber gone or a
\* controller call fails, and then stays ended; after each sleep it emits
\* again unless a call fails; once the subscriber is gone the stream ends,
\* after at most one more emission.
C19_StreamUntilDisconnected ==
  /\ [](pc = "done" => history.observed \/ ret.t = "http_error")
  /\ [](history.observed => ~connected /\ pc = "done")
  /\ [](history.emitted_after <= 1)
  /\ [][pc = "done" => pc' = "done" /\ UNCHANGED <<snapshot, sent, history>>]_vars
  /\ (pc = "sleep" ~> (Emitted \/ (pc = "done" /\ ret.t = "http_error")))
  /\ ((Running /\ ~connected) ~> pc = "done")

\* The subscriber went away, one more snapshot was emitted, and the next
\* check ended the stream.
C19_Witness ==
  /\ pc = "done"
  /\ history.observed
  /\ history.emitted_after = 1

\* The controller answered an exchange with a non-success status: other than
\* 200 for a fetch or query, other than 200 and 202 for a task submission.
NonSuccess(exchange) ==
  /\ exchange.response # NoResponse
  /\ exchange.response.status_code
       \notin (IF exchange.request.method = "POST" THEN {200, 202} ELSE {200})

\* The submissions of a setParameterValues task among the requests sent.
WriteSubmissions ==
  {i \in 1..Len(sent) :
     /\ sent[i].request.method = "POST"
     /\ GetKey(sent[i].request.json, "name") = Str("setParameterValues")}

\* C20: an exchange the controller answered with a non-success status is the
\* last one of its operation, which has ended with an error carrying that
\* status and body; no request is sent twice and at most one write is
\* submitted in an operation.
C20_FailurePassedThroughOnce ==
  /\ \A i \in 1..Len(sent) :
       NonSuccess(sent[i]) =>
         /\ i = Len(sent)
         /\ pc = "done"
         /\ ret = [t |-> "http_error",
                   v |-> <<sent[i].response.status_code, sent[i].response.text>>]
  /\ \A i, j \in 1..Len(sent) : sent[i].request = sent[j].request => i = j
  /\ Cardinality(WriteSubmissions) <= 1

\* The controller refused the Wi-Fi task of wifi_and_reboot with 503: the
\* operation ended with that status and body after two requests.
C20_Witness ==
  /\ op = "wifi_and_reboot"
  /\ pc = "done"
  /\ Len(sent) = 2
  /\ sent[2].response.status_code = 503
  /\ ret = [t |-> "http_error", v |-> <<503, "upstream body">>]

\* The operations that start by fetching the device document.
DocumentOps == {"change_wifi", "wifi_and_reboot", "device_detail", "read_ssid", "read_value"}

\* The controller answered the fetch with 200 and an empty array.
NoDocument ==
  /\ sent # <<>>
  /\ sent[1].request = fetch_request(DeviceId)
  /\ sent[1].response.status_code = 200
  /\ sent[1].response.json = <<>>

\* C21: when the controller returns no document the document-based operation
\* ends with 404 after that one request; a task is submitted only after a
\* fetch that was answered 200 with a document.
C21_NotFoundAndNoTask ==
  /\ op \in DocumentOps /\ NoDocument =>
       /\ pc = "done"
       /\ ret = [t |-> "http_error", v |-> <<404, "Device not found">>]
       /\ Len(sent) = 1
  /\ \A i \in 1..Len(sent) :
       sent[i].request.method = "POST" =>
         /\ i > 1
         /\ sent[1].request = fetch_request(DeviceId)
         /\ sent[1].response.status_code = 200
         /\ sent[1].response.json # <<>>

\* change_wifi for a device the controller has no document of.
C21_Witness ==
  /\ op = "change_wifi"
  /\ NoDocument
  /\ pc = "done"
  /\ ret = [t |-> "http_error", v |-> <<404, "Device not found">>]

\* The instance a reference attribute names: the digits that follow the
\* first occurrence of the prefix in the string at the path, None when the
\* attribute is missing, is no string or holds no such reference.
NamedInstance(d, path, prefix) ==
  LET ref == extract_value_from_path(d, path)
  IN IF IsStr(ref) THEN re_search_digits(prefix, ref.v) ELSE None

SsidOfAp(d, k) ==
  NamedInstance(d, "Device.WiFi.AccessPoint." \o k \o ".SSIDReference", "Device.WiFi.SSID.")

RadioOfSsid(d, i) ==
  NamedInstance(d, "Device.WiFi.SSID." \o i \o ".LowerLayers", "Device.WiFi.Radio.")

BandOfRadio(d, r) ==
  extract_value_from_path(d, "Device.WiFi.Radio." \o r \o ".OperatingFrequencyBand")

\* Access point k leads, through its SSID and that SSID's radio, to band b.
ChainReaches(d, k, b) ==
  /\ SsidOfAp(d, k) # None
  /\ RadioOfSsid(d, SsidOfAp(d, k).v) # None
  /\ BandOfRadio(d, RadioOfSsid(d, SsidOfAp(d, k).v).v) = Str(b)

AccessPoints(d) ==
  {InstancesAt(d, "Device.WiFi.AccessPoint")[n] :
     n \in 1..Len(InstancesAt(d, "Device.WiFi.AccessPoint"))}

\* C22: every entry band -> (ssidId, apId, radioId) of map_tr181_by_band has
\* a band of "2.4GHz" or "5GHz", access point apId's SSIDReference names SSID
\* ssidId, SSID ssidId's LowerLayers names radio radioId and radio radioId's
\* OperatingFrequencyBand equals band; no band has two entries; and a band
\* that some access point reaches by a complete chain has an entry, whatever
\* the references of the other access points are.
C22_BandMapIsReferenceChain ==
  op = "map_tr181_by_band" =>
    /\ ret.t = "dict"
    /\ \A n \in 1..Len(ret.v) :
         /\ ret.v[n][1] \in {"2.4GHz", "5GHz"}
         /\ SsidOfAp(doc, ret.v[n][2][2]) = Str(ret.v[n][2][1])
         /\ RadioOfSsid(doc, ret.v[n][2][1]) = Str(ret.v[n][2][3])
         /\ BandOfRadio(doc, ret.v[n][2][3]) = Str(ret.v[n][1])
         /\ \A m \in 1..Len(ret.v) : ret.v[m][1] = ret.v[n][1] => m = n
    /\ \A b \in {"2.4GHz", "5GHz"} :
         (\E k \in AccessPoints(doc) : ChainReaches(doc, k, b)) => HasKey(ret, b)

\* A document with one access point whose chain is broken and another that
\* is mapped.
C22_Witness ==
  /\ op = "map_tr181_by_band"
  /\ ret.t = "dict" /\ ret.v # <<>>
  /\ \E k \in AccessPoints(doc) :
       /\ \A b \in {"2.4GHz", "5GHz"} : ~ChainReaches(doc, k, b)
       /\ \A n \in 1..Len(ret.v) : ret.v[n][2][2] # k

\* A timestamp "YYYY-MM-DDTHH:MM:SS[.f+]Z" written with six fractional
\* digits, the width at which text order is chronological order.
RECURSIVE ZeroFilled(_, _)
ZeroFilled(digits, width) ==
  IF Len(digits) >= width THEN digits ELSE ZeroFilled(digits \o "0", width)

FixedWidth(s) ==
  SubSeq(s, 1, 19) \o "."
  \o ZeroFilled(IF Len(s) > 20 THEN SubSeq(s, 21, Len(s) - 1) ELSE "", 6) \o "Z"

IsTimestamp(v) == IsStr(v) /\ Len(v.v) >= 20 /\ Char(v.v, Len(v.v)) = "Z"

\* a is chronologically at or after b.
AtOrAfter(a, b) == str_ge(FixedWidth(a), FixedWidth(b))

\* C23: the device is listed online exactly when its last contact is
\* chronologically at or after the cutoff, for last contacts with and without
\* a fractional-seconds part.
C23_OnlineIffChronological ==
  ListedOne /\ IsTimestamp(DocGet(doc, "_lastInform")) =>
    GetKey(ListedItem, "online")
      = Bool(AtOrAfter(DocGet(doc, "_lastInform").v, GetKey(ret, "online_cut").v))

\* A count call has just returned to _compute_overview; sent is its log.
CountReturned == pc \in {"online", "active", "yield"} /\ sent # <<>>

\* The count the call returned.
Counted ==
  CASE pc = "online" -> frame.total_devices
    [] pc = "active" -> frame.online_now
    [] OTHER -> frame.active_24h

\* The response carries a result-count header that parses as an integer.
CarriesCount(response) ==
  /\ response.total # None
  /\ response.total.v # ""
  /\ ~IsRaised(py_int(response.total.v))

\* C24: nbi_count returns the value of the result-count header when the first
\* response carries one that parses as an integer; otherwise it repeats the
\* query with limit 10000 and returns the number of documents returned, which
\* is at most 10000; a count takes at most two requests.
C24_HeaderOrCappedFetch ==
  /\ Len(sent) <= 2
  /\ CountReturned =>
       IF CarriesCount(sent[1].response)
       THEN /\ Len(sent) = 1
            /\ Counted = py_int(sent[1].response.total.v)
       ELSE /\ Len(sent) = 2
            /\ sent[2].request = [sent[1].request EXCEPT !.limit = Str("10000")]
            /\ Counted = Num(sent[2].response.returned)
            /\ Counted.v <= 10000

\* More than 10000 devices counted without a usable header: the count is the
\* cap.
C24_Witness ==
  /\ pc = "online"
  /\ Len(sent) = 2
  /\ sent[1].response.total = Str("unknown")
  /\ Matching(fleet, Everything, MaxTicks) > 10000
  /\ frame.total_devices = Num(10000)

\* C25: every request of a count made for the overview carries an explicit
\* result limit.
C25_EveryQueryLimited ==
  \A i \in 1..Len(sent) :
    sent[i].request.url = "/devices" => sent[i].request.limit # None

\* A Wi-Fi task was submitted: the document fetched and the SSID path and the
\* password path of the task.
WifiSubmitted ==
  /\ op \in {"change_wifi", "wifi_and_reboot"}
  /\ Len(sent) >= 2

FetchedDoc == sent[1].response.json[1]

SubmittedPath(field) == GetKey(sent[2].request.json, "parameterValues").v[field].v[1].v

NoOverrides == arg.parameter_ssid = None /\ arg.parameter_password = None

\* C26: for a legacy document and no overrides, change_wifi submits the task
\* on the SSID path and the password path the earlier variant resolves, those
\* of WLANConfiguration.<wlan_index>.
C26_SamePathsAsEarlierVariant ==
  WifiSubmitted /\ op = "change_wifi" /\ NoOverrides /\ LegacyOnly(FetchedDoc) =>
    /\ SubmittedPath(1) = mvp_wifi_paths(FetchedDoc, arg.wlan_index, None, None).v[1]
    /\ SubmittedPath(2) = mvp_wifi_paths(FetchedDoc, arg.wlan_index, None, None).v[2]
    /\ startswith(SubmittedPath(1), WLAN \o "." \o ToString(arg.wlan_index) \o ".")

\* The submissions of a reboot task among the requests sent.
RebootSubmissions ==
  {i \in 1..Len(sent) :
     /\ sent[i].request.method = "POST"
     /\ GetKey(sent[i].request.json, "name") = Str("reboot")}

OtherBand(band) == IF band = "2.4GHz" THEN "5GHz" ELSE "2.4GHz"

\* C28: the paths resolve_wifi_params returns for a band differ, SSID path and
\* password path alike, from those it returns for the other band of the same
\* document.
C28_BandsResolveApart ==
  op = "resolve_wifi_params" /\ ret.t = "tuple" =>
    LET other == resolve_wifi_params(doc, OtherBand(arg))
    IN other.t = "tuple" => ret.v[1] # other.v[1] /\ ret.v[2] # other.v[2]

\* The value stored at the SSID path the write side resolves for the band.
WriteSideSsid(d, band) ==
  LET paths == resolve_wifi_params(d, band)
  IN IF paths.t = "tuple" THEN extract_value_from_path(d, paths.v[1]) ELSE None

\* C29: the SSID value resolve_ssids reports for a band, when it reports one,
\* is the value stored at the SSID path resolve_wifi_params returns for that
\* band.
C29_ReadSideMatchesWriteSide ==
  op = "resolve_ssids" /\ ret.t = "tuple" =>
    /\ ret.v[1] # None => ret.v[1] = WriteSideSsid(doc, "2.4GHz")
    /\ ret.v[2] # None => ret.v[2] = WriteSideSsid(doc, "5GHz")

\* C30: an override supplied for the SSID path or for the password path is
\* the path of that field in the submitted Wi-Fi task, also when it is the
\* only override supplied.
C30_OverrideHonoured ==
  WifiSubmitted =>
    /\ arg.parameter_ssid # None => SubmittedPath(1) = arg.parameter_ssid.v
    /\ arg.parameter_password # None => SubmittedPath(2) = arg.parameter_password.v

====
